---- MODULE Spec2Model ----
(***************************************************************************)
(* A model of mdbook-template's expansion engine (src/src/lib.rs,          *)
(* src/src/links.rs, src/src/utils.rs).                                    *)
(*                                                                         *)
(* Text is a sequence of one-character strings (ASCII only, so that byte   *)
(* offsets and character offsets coincide).  Offsets are 0-based and       *)
(* half-open as in the Rust source: Slice(s, a, b) is &s[a..b].            *)
(***************************************************************************)
EXTENDS Integers, Sequences, FiniteSets, TLC

\* ------------------------------------------------------------------------
\* Characters and slices
\* ------------------------------------------------------------------------

\* The characters of the model's alphabet (ASCII) that the regex class \s
\* and str::trim treat as whitespace: space, tab, line feed, carriage
\* return, form feed and vertical tab (U+000B, the last element).
WS == {" ", "\t", "\n", "\r", "\f", ""}

ESCAPE_CHAR == "\\"

LINE_BREAKS == {"\n", "\r"}

Slice(s, a, b) == SubSeq(s, a + 1, b)

SliceFrom(s, a) == SubSeq(s, a + 1, Len(s))

StartsWithAt(s, p, pat) ==
    /\ p + Len(pat) <= Len(s)
    /\ SubSeq(s, p + 1, p + Len(pat)) = pat

\* The element of a one-element set.  Only({F(x) : x \in {e}}) is F(e) with
\* e computed once and x standing for its value.
Only(S) == CHOOSE x \in S : TRUE

\* The first offset q in lo..(hi - 1) whose character is in (resp. is not
\* in) the set cs, there being one: lo..hi is halved until q is left.
RECURSIVE FirstIn(_, _, _, _)
FirstIn(s, lo, hi, cs) ==
    IF hi - lo <= 1 THEN lo
    ELSE Only({IF \E r \in (lo + 1)..mid : s[r] \in cs
               THEN FirstIn(s, lo, mid, cs) ELSE FirstIn(s, mid, hi, cs) :
                 mid \in {(lo + hi) \div 2}})

RECURSIVE FirstNotIn(_, _, _, _)
FirstNotIn(s, lo, hi, cs) ==
    IF hi - lo <= 1 THEN lo
    ELSE Only({IF \E r \in (lo + 1)..mid : s[r] \notin cs
               THEN FirstNotIn(s, lo, mid, cs) ELSE FirstNotIn(s, mid, hi, cs) :
                 mid \in {(lo + hi) \div 2}})

\* The same from offset lo to the end of s, where there need be none: the
\* next w characters are looked through, then twice as many, and so on.
RECURSIVE FirstInFrom(_, _, _, _)
FirstInFrom(s, lo, w, cs) ==
    IF lo >= Len(s) THEN lo
    ELSE Only({IF \E r \in (lo + 1)..hi : s[r] \in cs
               THEN FirstIn(s, lo, hi, cs) ELSE FirstInFrom(s, hi, 2 * w, cs) :
                 hi \in {IF lo + w < Len(s) THEN lo + w ELSE Len(s)}})

RECURSIVE FirstNotInFrom(_, _, _, _)
FirstNotInFrom(s, lo, w, cs) ==
    IF lo >= Len(s) THEN lo
    ELSE Only({IF \E r \in (lo + 1)..hi : s[r] \notin cs
               THEN FirstNotIn(s, lo, hi, cs) ELSE FirstNotInFrom(s, hi, 2 * w, cs) :
                 hi \in {IF lo + w < Len(s) THEN lo + w ELSE Len(s)}})

\* The first offset q >= p whose character is not in (resp. is in) the set
\* cs, or Len(s) when there is none: the end of a greedy run of a class.
SkipIn(s, p, cs) == FirstNotInFrom(s, p, 1, cs)

SkipNotIn(s, p, cs) == FirstInFrom(s, p, 1, cs)

Contains(s, cs) == \E i \in 1..Len(s) : s[i] \in cs

\* The end of s[a..e] without its trailing whitespace.
RECURSIVE TrimEnd(_, _, _)
TrimEnd(s, a, e) ==
    IF e > a /\ s[e] \in WS THEN TrimEnd(s, a, e - 1) ELSE e

TrimFrom(s, a) == Slice(s, a, TrimEnd(s, a, Len(s)))

\* str::trim
trim(s) == TrimFrom(s, SkipIn(s, 0, WS))

\* HashMap::insert on a map held as a function from keys to values.
MapPut(m, k, v) == [x \in (DOMAIN m) \cup {k} |-> IF x = k THEN v ELSE m[x]]

EmptyMap == [x \in {} |-> <<>>]

\* ------------------------------------------------------------------------
\* The two marker regexes, TEMPLATE and ARGS.  Both have the same three
\* alternatives; they differ in the delimiter, the keyword after '#', and in
\* that TEMPLATE wants whitespace between the keyword and the first token.
\* A match is [ok, alt, end, g1, g2]: alt 1 is the escaped alternative,
\* alt 2 the one without a second capture, alt 3 the one with it.
\* ------------------------------------------------------------------------

\* The least of a non-empty set of offsets: where a leftmost match starts.
Least(S) == CHOOSE x \in S : \A y \in S : x <= y

NoMatch == [ok |-> FALSE, alt |-> 0, end |-> 0, g1 |-> <<>>, g2 |-> <<>>]

\* The greatest end e in from+2..e0 of a closing pair: where a greedy '.*'
\* started at from stops.  -1 when there is no closing pair.
RECURSIVE LastClose(_, _, _, _)
LastClose(s, from, e0, close) ==
    IF e0 < from + 2 THEN -1
    ELSE IF s[e0 - 1] = close /\ s[e0] = close THEN e0
    ELSE LastClose(s, from, e0 - 1, close)

EscapedMatch(e) ==
    IF e < 0 THEN NoMatch
    ELSE [ok |-> TRUE, alt |-> 1, end |-> e, g1 |-> <<>>, g2 |-> <<>>]

\* Alternative 1:  \\ open open # .* close close
\* '.' matches anything but "\n" and '.*' is greedy: the match ends at the
\* LAST closing pair on the line the marker starts on.
MatchEscaped(s, i, open, close) ==
    IF ~StartsWithAt(s, i, <<ESCAPE_CHAR, open, open, "#">>) THEN NoMatch
    ELSE Only({EscapedMatch(e) :
                 e \in {LastClose(s, i + 4, eol, close) :
                          eol \in {SkipNotIn(s, i + 4, {"\n"})}}})

\* A marker whose keyword would not have to end where "template" ends.
TokenAfterAnySep(s, p2, p3, sep) ==
    IF p3 >= Len(s) \/ s[p3 + 1] \in WS THEN -1 ELSE p3

\* The common head of alternatives 2 and 3:
\*   open open \s* # kw (\s+)? followed by a non-whitespace character.
\* The result is the offset where the first token starts, or -1.
TokenAfterSep(s, p2, p3, sep) ==
    IF (sep /\ p3 = p2) \/ p3 >= Len(s) \/ s[p3 + 1] \in WS THEN -1 ELSE p3

TokenAfterKw(s, p2, sep) ==
    Only({TokenAfterSep(s, p2, p3, sep) :
            p3 \in {IF sep THEN SkipIn(s, p2, WS) ELSE p2}})

TokenAfterOpen(s, p1, kw, sep) ==
    IF ~StartsWithAt(s, p1, <<"#">> \o kw) THEN -1
    ELSE Only({TokenAfterKw(s, p2, sep) : p2 \in {p1 + 1 + Len(kw)}})

TokenStart(s, i, open, kw, sep) ==
    IF ~StartsWithAt(s, i, <<open, open>>) THEN -1
    ELSE Only({TokenAfterOpen(s, p1, kw, sep) : p1 \in {SkipIn(s, i + 2, WS)}})

\* \s* close close at offset fe.
ClosedAt(s, fe, close) ==
    Only({StartsWithAt(s, w, <<close, close>>) : w \in {SkipIn(s, fe, WS)}})

\* [\S]+ is greedy and backtracks: the greatest end fe in p3+1..fe0 of the
\* token such that \s* and the closing pair follow.  -1 when there is none.
RECURSIVE LongestClosed(_, _, _, _)
LongestClosed(s, p3, fe0, close) ==
    IF fe0 <= p3 THEN -1
    ELSE IF ClosedAt(s, fe0, close) THEN fe0
    ELSE LongestClosed(s, p3, fe0 - 1, close)

BareMatch(s, p3, fe) ==
    IF fe < 0 THEN NoMatch
    ELSE [ok |-> TRUE, alt |-> 2, end |-> SkipIn(s, fe, WS) + 2,
          g1 |-> Slice(s, p3, fe), g2 |-> <<>>]

\* Alternative 2:  head ([\S]+) \s* close close
MatchBare(s, p3, close) ==
    Only({BareMatch(s, p3, fe) :
            fe \in {LongestClosed(s, p3, run, close) :
                      run \in {SkipNotIn(s, p3, WS)}}})

\* The second capture s[a..r] must not be empty and the closing pair must
\* follow it; \s+ must have taken at least one character (a > run).
RestMatch(s, p3, run, a, r, close) ==
    IF a <= run \/ r <= a \/ ~StartsWithAt(s, r, <<close, close>>) THEN NoMatch
    ELSE [ok |-> TRUE, alt |-> 3, end |-> r + 2,
          g1 |-> Slice(s, p3, run), g2 |-> Slice(s, a, r)]

RestFrom(s, p3, run, a, close) ==
    Only({RestMatch(s, p3, run, a, r, close) : r \in {SkipNotIn(s, a, {close})}})

\* \s+ is greedy; when the character after the whitespace is the closing
\* character it gives one whitespace back to ([^close]+).
RestAfterSpace(s, p3, run, w, close) ==
    Only({RestFrom(s, p3, run, a, close) :
            a \in {IF w < Len(s) /\ s[w + 1] = close THEN w - 1 ELSE w}})

RestAfterToken(s, p3, run, close) ==
    Only({RestAfterSpace(s, p3, run, w, close) : w \in {SkipIn(s, run, WS)}})

\* Alternative 3:  head ([\S]+) \s+ ([^close]+) close close
\* \s+ needs a whitespace character right after the token, so the token is
\* the whole run of non-whitespace characters.
MatchWithRest(s, p3, close) ==
    Only({RestAfterToken(s, p3, run, close) : run \in {SkipNotIn(s, p3, WS)}})

BareOrWithRest(s, p3, close, m) ==
    IF m.ok THEN m ELSE MatchWithRest(s, p3, close)

MatchToken(s, p3, close) ==
    IF p3 < 0 THEN NoMatch
    ELSE Only({BareOrWithRest(s, p3, close, m) : m \in {MatchBare(s, p3, close)}})

EscapedOrToken(s, i, open, kw, sep, close, m) ==
    IF m.ok THEN m
    ELSE Only({MatchToken(s, p3, close) : p3 \in {TokenStart(s, i, open, kw, sep)}})

\* The alternatives are tried in order at one start offset.
MatchAt(s, i, open, kw, sep, close) ==
    Only({EscapedOrToken(s, i, open, kw, sep, close, m) :
            m \in {MatchEscaped(s, i, open, close)}})

KwTemplate == <<"t", "e", "m", "p", "l", "a", "t", "e">>

TEMPLATE(s, i) == MatchAt(s, i, "{", KwTemplate, TRUE, "}")

ARGS(s, i) == MatchAt(s, i, "[", <<>>, FALSE, "]")

\* ------------------------------------------------------------------------
\* Invocation arguments (Link::from_capture, third match arm)
\* ------------------------------------------------------------------------

\* The offset of the first '=' of s, or Len(s): str::splitn(2, '=').
FirstEq(s) == SkipNotIn(s, 0, {"="})

\* \s[^\s=]+=  at offset e of a, the name ending at r.
NameEqAt(a, e, r) == r > e + 1 /\ r < Len(a) /\ a[r + 1] = "="

\* A lookahead that any whitespace would satisfy.
ArgLookaheadAtSpace(a, e) == e = Len(a) \/ a[e + 1] \in WS

\* The lookahead (?=(?:\s[^\s=]+=|$)) at offset e of a.
ArgLookahead(a, e) ==
    \/ e = Len(a)
    \/ /\ e < Len(a)
       /\ a[e + 1] \in WS
       /\ \E r \in {SkipNotIn(a, e + 1, WS \cup {"="})} : NameEqAt(a, e, r)

\* The first offset from e on where the lookahead holds (it holds at the
\* end of a).
ArgLookaheadFrom(a, e) ==
    CHOOSE q \in e..Len(a) :
        ArgLookahead(a, q) /\ \A r \in e..(q - 1) : ~ArgLookahead(a, r)

\* (.*?) is lazy: the value ends at the first offset where the lookahead
\* holds; '.' does not cross "\n".  The result is that offset, or -1.
ArgValueEnd(a, e) ==
    Only({IF \A r \in (e + 1)..q : a[r] # "\n" THEN q ELSE -1 :
            q \in {ArgLookaheadFrom(a, e)}})

\* The outcomes of TEMPLATE_ARGS: a match, no match, and the error of a
\* search that was given up (Error::BacktrackLimitExceeded).
NoArg == [ok |-> FALSE, err |-> FALSE, end |-> 0, key |-> <<>>, value |-> <<>>]

ArgError == [ok |-> FALSE, err |-> TRUE, end |-> 0, key |-> <<>>, value |-> <<>>]

ArgMatch(a, p, k, e) ==
    IF e < 0 THEN NoArg
    ELSE [ok |-> TRUE, err |-> FALSE, end |-> e, key |-> Slice(a, p, k),
          value |-> Slice(a, k + 1, e)]

\* ([^\s=]+)= : the name s[p..k] is not empty and '=' follows it.
ArgAfterKey(a, p, k) ==
    IF k > p /\ k < Len(a) /\ a[k + 1] = "="
    THEN Only({ArgMatch(a, p, k, e) : e \in {ArgValueEnd(a, k + 1)}})
    ELSE NoArg

\* (?<=\s|\A) at offset p.
ArgLookbehind(a, p) == p = 0 \/ a[p] \in WS

\* The match of  (?<=\s|\A)([^\s=]+)=(.*?)(?=(?:\s[^\s=]+=|$))  that
\* starts at offset p, where there is one.
ArgAt(a, p) ==
    IF ArgLookbehind(a, p)
    THEN Only({ArgAfterKey(a, p, k) : k \in {SkipNotIn(a, p, WS \cup {"="})}})
    ELSE NoArg

\* TEMPLATE_ARGS has look-arounds, so the regex runs on a backtracking VM
\* that counts each return to a saved branch and gives the search up with
\* an error once it has counted more than this many (the default of
\* RegexBuilder::backtrack_limit, which Regex::new keeps).
BACKTRACK_LIMIT == 1000000

\* The branches the VM returns to in (.*?) from offset v on: one for each
\* offset where the lookahead fails, up to the value's end e or, when the
\* value has no end (e < 0), up to the "\n" that '.' does not take.
ArgValueBacktracks(a, v, e) ==
    IF e >= 0 THEN e - v ELSE SkipNotIn(a, v, {"\n"}) - v + 1

\* The branches the VM returns to in ([^\s=]+)=(.*?) at offset p, k being
\* the end of the greedy name: ([^\s=]+) saves a branch after each of its
\* characters.  The last one is taken when the class fails at k; the others
\* are taken, one by one and all in vain, when '=' or the value fails.
ArgBodyBacktracks(a, p, k, e) ==
    IF k = p THEN 0
    ELSE IF k < Len(a) /\ a[k + 1] = "="
    THEN (IF e >= 0 THEN 1 ELSE k - p) + ArgValueBacktracks(a, k + 1, e)
    ELSE k - p

\* The branches around the body.  (?<=\s|\A) is compiled as (?<=\s)|(?<=\A):
\* where (?<=\s) fails the VM returns to (?<=\A); where the body fails
\* after (?<=\s) it returns to (?<=\A), which fails; and an attempt that
\* fails returns to the branch of the search, which moves on by a character.
ArgAttemptBacktracks(a, p, k, m) ==
    IF m.ok THEN (IF p = 0 THEN 1 ELSE 0) + ArgBodyBacktracks(a, p, k, m.end)
    ELSE 2 + ArgBodyBacktracks(a, p, k, -1)

\* The backtracks of the VM in its attempt at offset p.
ArgBacktracks(a, p) ==
    IF ArgLookbehind(a, p)
    THEN Only({ArgAttemptBacktracks(a, p, k, ArgAfterKey(a, p, k)) :
                 k \in {SkipNotIn(a, p, WS \cup {"="})}})
    ELSE 2

\* The backtracks of the attempts at the offsets lo..hi, taken together.
RECURSIVE Backtracks(_, _, _)
Backtracks(a, lo, hi) ==
    IF lo > hi THEN 0
    ELSE IF lo = hi THEN ArgBacktracks(a, lo)
    ELSE Only({Backtracks(a, lo, mid) + Backtracks(a, mid + 1, hi) :
                 mid \in {(lo + hi) \div 2}})

\* The first offset in lo..(hi - 1) with a match, there being one, and the
\* first one from lo to the end of a, or Len(a): found like FirstIn and
\* FirstInFrom.
RECURSIVE FirstArgIn(_, _, _)
FirstArgIn(a, lo, hi) ==
    IF hi - lo <= 1 THEN lo
    ELSE Only({IF \E r \in lo..(mid - 1) : ArgAt(a, r).ok
               THEN FirstArgIn(a, lo, mid) ELSE FirstArgIn(a, mid, hi) :
                 mid \in {(lo + hi) \div 2}})

RECURSIVE FirstArgFrom(_, _, _)
FirstArgFrom(a, lo, w) ==
    IF lo >= Len(a) THEN lo
    ELSE Only({IF \E r \in lo..(hi - 1) : ArgAt(a, r).ok
               THEN FirstArgIn(a, lo, hi) ELSE FirstArgFrom(a, hi, 2 * w) :
                 hi \in {IF lo + w < Len(a) THEN lo + w ELSE Len(a)}})

\* Where a search from offset pos stops: at the first offset with a match,
\* or at the end of a.
ArgSearchEnd(a, pos) == FirstArgFrom(a, pos, 1)

\* captures_from_pos(a, pos) returns Err(BacktrackLimitExceeded).
BacktrackLimitExceeded(a, pos) ==
    Only({Backtracks(a, pos, q) > BACKTRACK_LIMIT : q \in {ArgSearchEnd(a, pos)}})

\* TEMPLATE_ARGS at offset p: the search from p ends in an error, or it
\* finds the match that starts at p, or there is no match at p.
TEMPLATE_ARGS(a, p) ==
    IF BacktrackLimitExceeded(a, p) THEN ArgError ELSE ArgAt(a, p)

\* One match of TEMPLATE_ARGS, split at its first '=' (splitn(2, '=')):
\* the key is trimmed, the value is what follows the '='.
SplitPair(whole, eq) == <<trim(Slice(whole, 0, eq)), SliceFrom(whole, eq + 1)>>

KeyValue(whole) == Only({SplitPair(whole, eq) : eq \in {FirstEq(whole)}})

\* The inline layout: TEMPLATE_ARGS.captures_iter(args).filter_map(..)
\* .collect().  starts is the set of the offsets at which TEMPLATE_ARGS
\* matches; each match is the leftmost one at or after pos, the end of the
\* match before.  The result is [pairs, hangs]: CaptureMatches::next does
\* not move on after an error, so it yields the same error again and again,
\* the closure drops each one (mat.ok()?) and collect() never comes to an
\* end; hangs tells that the iteration is such a one.
RECURSIVE InlineArgs(_, _, _)
InlineArgsAt(a, pos, m, starts) ==
    Only({[rest EXCEPT !.pairs =
              Only({<<KeyValue(whole)>> : whole \in {Slice(a, pos, m.end)}}) \o @] :
            rest \in {InlineArgs(a, m.end, starts)}})

InlineArgsFrom(a, pos, starts) ==
    IF \A q \in starts : q < pos THEN [pairs |-> <<>>, hangs |-> FALSE]
    ELSE Only({Only({InlineArgsAt(a, q, m, starts) : m \in {ArgAt(a, q)}}) :
                 q \in {Least({q0 \in starts : q0 >= pos})}})

InlineArgs(a, pos, starts) ==
    IF TEMPLATE_ARGS(a, pos).err THEN [pairs |-> <<>>, hangs |-> TRUE]
    ELSE InlineArgsFrom(a, pos, starts)

ArgStarts(a) == {q \in 0..(Len(a) - 1) : ArgAt(a, q).ok}

\* str::split(LINE_BREAKS): the pieces of a from offset p on, between
\* line-break characters.
RECURSIVE SplitLines(_, _), SplitLinesAt(_, _, _)
SplitLines(a, p) ==
    Only({SplitLinesAt(a, p, e) : e \in {SkipNotIn(a, p, LINE_BREAKS)}})

SplitLinesAt(a, p, e) ==
    IF e >= Len(a) THEN <<Slice(a, p, e)>>
    ELSE <<Slice(a, p, e)>> \o SplitLines(a, e + 1)

\* .map(|str| str.trim()).filter(|trimmed| !trimmed.is_empty())
NonEmpty(t) == IF t = <<>> THEN <<>> ELSE <<t>>

RECURSIVE TrimmedLines(_, _)
TrimmedLines(ls, k) ==
    IF k > Len(ls) THEN <<>>
    ELSE Only({NonEmpty(trim(l)) : l \in {ls[k]}}) \o TrimmedLines(ls, k + 1)

\* One line of the multi-line layout: a pair when the line has a '=', and
\* nothing (after a message on stderr) when it has none.
LinePair(line, eq) ==
    IF eq < Len(line) THEN <<SplitPair(line, eq)>> ELSE <<>>

RECURSIVE MultiLineArgs(_, _)
MultiLineArgs(ls, k) ==
    IF k > Len(ls) THEN <<>>
    ELSE Only({LinePair(ls[k], eq) : eq \in {FirstEq(ls[k])}})
           \o MultiLineArgs(ls, k + 1)

\* The lines of a multi-line argument text for which the code prints
\* "Couldn't find a key/value pair while parsing the argument".
RECURSIVE MalformedLines(_, _)
MalformedLines(ls, k) ==
    IF k > Len(ls) THEN <<>>
    ELSE (IF FirstEq(ls[k]) < Len(ls[k]) THEN <<>> ELSE <<ls[k]>>)
           \o MalformedLines(ls, k + 1)

\* A layout that would always be taken for the inline one.
IsMultiLineNever(args) == FALSE

\* The layout is chosen by a line break in the ARGUMENT capture.
IsMultiLine(args) == Contains(args, LINE_BREAKS)

\* The lines of the argument capture, trimmed, the empty ones dropped.
ArgLines(args) ==
    Only({TrimmedLines(ls, 1) : ls \in {SplitLines(args, 0)}})

\* let split_args = match args.as_str().contains(LINE_BREAKS) {..}: the
\* pairs, and whether the arm that computes them never returns.
split_args(args) ==
    IF IsMultiLine(args)
    THEN [pairs |-> Only({MultiLineArgs(ls, 1) : ls \in {ArgLines(args)}}),
          hangs |-> FALSE]
    ELSE Only({InlineArgs(args, 0, starts) : starts \in {ArgStarts(args)}})

\* HashMap::extend(Vec<(key, value)>) from the k-th pair on: later pairs
\* overwrite earlier ones.
RECURSIVE MapExtend(_, _, _)
MapExtend(m, pairs, k) ==
    IF k > Len(pairs) THEN m
    ELSE Only({MapExtend(m1, pairs, k + 1) :
                 m1 \in {MapPut(m, pairs[k][1], pairs[k][2])}})

\* all_args after all_args.extend(split_args); empty for the other arms.
LinkArgs(m) ==
    IF m.alt = 3
    THEN Only({MapExtend(EmptyMap, pairs, 1) : pairs \in {split_args(m.g2).pairs}})
    ELSE EmptyMap

\* Link::from_capture does not return for a match m of TEMPLATE: it is in
\* the third arm and the arm never gets its pairs.
Link_from_capture_hangs(m) == m.alt = 3 /\ split_args(m.g2).hangs

\* The messages of the inline layout, "Couldn't parse key or value while
\* parsing": one, with the whole argument text, for each match of
\* TEMPLATE_ARGS that has no '=' to split at.
RECURSIVE InlineMalformed(_, _, _)
InlineMalformedAt(a, pos, m, starts) ==
    (IF FirstEq(Slice(a, pos, m.end)) < m.end - pos THEN <<>> ELSE <<a>>)
      \o InlineMalformed(a, m.end, starts)

InlineMalformed(a, pos, starts) ==
    IF \A q \in starts : q < pos THEN <<>>
    ELSE Only({Only({InlineMalformedAt(a, q, m, starts) : m \in {TEMPLATE_ARGS(a, q)}}) :
                 q \in {Least({q0 \in starts : q0 >= pos})}})

\* What Link::from_capture prints on stderr for a match m of TEMPLATE.
split_args_messages(args) ==
    IF IsMultiLine(args)
    THEN Only({MalformedLines(ls, 1) : ls \in {ArgLines(args)}})
    ELSE Only({InlineMalformed(args, 0, starts) : starts \in {ArgStarts(args)}})

Link_from_capture_messages(m) ==
    IF m.alt = 3 THEN split_args_messages(m.g2) ELSE <<>>

\* Link::from_capture for a match m of TEMPLATE at offset i of s.
\* link_type is "Escaped" or "Template"; path is the Template's PathBuf.
Link_from_capture(s, i, m) ==
    [start_index |-> i,
     end_index   |-> m.end,
     link_type   |-> IF m.alt = 1 THEN "Escaped" ELSE "Template",
     path        |-> m.g1,
     link_text   |-> Slice(s, i, m.end),
     args        |-> LinkArgs(m)]

\* LinkIter::next over TEMPLATE.captures_iter(contents): the leftmost match
\* at or after pos, then the search resumes where the match ended.
\* starts is the set of the offsets at which TEMPLATE matches.  The result
\* is [links, hangs]: the links that next() yields one after the other, and
\* whether the call of next() after the last of them never returns instead
\* of returning None.
RECURSIVE LinksFrom(_, _, _)
LinksAt(s, pos, m, starts) ==
    IF Link_from_capture_hangs(m) THEN [links |-> <<>>, hangs |-> TRUE]
    ELSE Only({[rest EXCEPT !.links = <<Link_from_capture(s, pos, m)>> \o @] :
                 rest \in {LinksFrom(s, m.end, starts)}})

LinksFrom(s, pos, starts) ==
    IF \A q \in starts : q < pos THEN [links |-> <<>>, hangs |-> FALSE]
    ELSE Only({Only({LinksAt(s, q, m, starts) : m \in {TEMPLATE(s, q)}}) :
                 q \in {Least({q0 \in starts : q0 >= pos})}})

LinkStarts(s) == {q \in 0..(Len(s) - 1) : TEMPLATE(s, q).ok}

\* The iterator that extract_template_links(contents) returns, run as far
\* as it goes.
LinkIter(contents) ==
    Only({Only({LinksFrom(s, 0, starts) : starts \in {LinkStarts(s)}}) :
            s \in {contents}})

\* extract_template_links(contents): the links of the iterator.
extract_template_links(contents) == LinkIter(contents).links

\* ------------------------------------------------------------------------
\* Placeholders (Args)
\* ------------------------------------------------------------------------

\* Args::from_capture: args_type is "Escaped", "Plain" or "Default".
Args_from_capture(s, i, m) ==
    [start_index |-> i,
     end_index   |-> m.end,
     args_type   |-> CASE m.alt = 1 -> "Escaped"
                       [] m.alt = 2 -> "Plain"
                       [] OTHER -> "Default",
     argument    |-> m.g1,
     default_value |-> m.g2,
     args_text   |-> Slice(s, i, m.end)]

\* ArgsIter::next over ARGS.captures_iter(contents).
\* starts is the set of the offsets at which ARGS matches.
RECURSIVE ArgsFrom(_, _, _)
ArgsAt(s, pos, m, starts) ==
    <<Args_from_capture(s, pos, m)>> \o ArgsFrom(s, m.end, starts)

ArgsFrom(s, pos, starts) ==
    IF \A q \in starts : q < pos THEN <<>>
    ELSE Only({Only({ArgsAt(s, q, m, starts) : m \in {ARGS(s, q)}}) :
                 q \in {Least({q0 \in starts : q0 >= pos})}})

PlaceholderStarts(s) == {q \in 0..(Len(s) - 1) : ARGS(s, q).ok}

extract_args(contents) ==
    Only({Only({ArgsFrom(s, 0, starts) : starts \in {PlaceholderStarts(s)}}) :
            s \in {contents}})

\* A plain placeholder without a value that would stay in the text.
PlainValueKeepsMarker(captured_arg, all_args) ==
    IF captured_arg.argument \in DOMAIN all_args
    THEN all_args[captured_arg.argument] ELSE captured_arg.args_text

\* What Args::replace pushes for one captured placeholder.
PlainValue(captured_arg, all_args) ==
    IF captured_arg.argument \in DOMAIN all_args
    THEN all_args[captured_arg.argument] ELSE <<>>

\* A default that would win over the mapped value.
DefaultValueFirst(captured_arg, all_args) ==
    IF captured_arg.default_value # <<>>
    THEN captured_arg.default_value ELSE all_args[captured_arg.argument]

DefaultValue(captured_arg, all_args) ==
    IF captured_arg.argument \in DOMAIN all_args
    THEN all_args[captured_arg.argument] ELSE captured_arg.default_value

EscapedValue(captured_arg) == Tail(captured_arg.args_text)

ArgValue(captured_arg, all_args) ==
    CASE captured_arg.args_type = "Escaped" -> EscapedValue(captured_arg)
      [] captured_arg.args_type = "Plain" -> PlainValue(captured_arg, all_args)
      [] OTHER -> DefaultValue(captured_arg, all_args)

\* The loop of Args::replace from the k-th captured placeholder on.
RECURSIVE ArgsReplaceLoop(_, _, _, _, _)
ArgsReplaceLoop(contents, caps, k, previous_end_index, all_args) ==
    IF k > Len(caps) THEN SliceFrom(contents, previous_end_index)
    ELSE Slice(contents, previous_end_index, caps[k].start_index)
           \o ArgValue(caps[k], all_args)
           \o ArgsReplaceLoop(contents, caps, k + 1, caps[k].end_index, all_args)

Args_replace(contents, all_args) ==
    Only({ArgsReplaceLoop(contents, caps, 1, 0, all_args) :
            caps \in {extract_args(contents)}})

\* ------------------------------------------------------------------------
\* Paths (std::path on Unix) and the file reader
\* ------------------------------------------------------------------------

\* Path::join: an absolute path replaces the base; otherwise the path is
\* pushed after a separator (none after an empty base or a trailing '/').
PathJoin(base, path) ==
    IF path # <<>> /\ path[1] = "/" THEN path
    ELSE IF base = <<>> \/ base[Len(base)] = "/" THEN base \o path
    ELSE base \o <<"/">> \o path

\* Components::trim_right: trailing separators and trailing "." components
\* are not part of a path; the root separator stays.
RECURSIVE PathTrimRight(_)
PathTrimRight(p) ==
    IF Len(p) >= 2 /\ p[Len(p)] = "/" THEN PathTrimRight(SubSeq(p, 1, Len(p) - 1))
    ELSE IF Len(p) >= 2 /\ p[Len(p)] = "." /\ p[Len(p) - 1] = "/"
         THEN PathTrimRight(SubSeq(p, 1, Len(p) - 1))
    ELSE p

\* The position of the last separator among the first j characters, or 0.
RECURSIVE LastSlash(_, _)
LastSlash(t, j) ==
    IF j = 0 \/ t[j] = "/" THEN j ELSE LastSlash(t, j - 1)

ParentUpTo(t, j) ==
    IF j = 0 THEN [some |-> TRUE, path |-> <<>>]
    ELSE [some |-> TRUE, path |-> PathTrimRight(SubSeq(t, 1, j))]

ParentOfTrimmed(t) ==
    IF t = <<>> \/ t = <<"/">> THEN [some |-> FALSE, path |-> <<>>]
    ELSE ParentUpTo(t, LastSlash(t, Len(t)))

\* Path::parent: None ([some |-> FALSE]) for the empty path and for the
\* root, otherwise the path without its last component.
PathParent(p) == ParentOfTrimmed(PathTrimRight(p))

\* The components of a path, by which PathBuf compares and hashes: repeated
\* separators and "." components other than a leading one do not count.
RECURSIVE PathSegments(_), PathSegmentsAt(_, _)
PathSegments(p) == PathSegmentsAt(p, SkipNotIn(p, 0, {"/"}))

PathSegmentsAt(p, e) ==
    (IF e = 0 THEN <<>> ELSE <<Slice(p, 0, e)>>)
      \o (IF e >= Len(p) THEN <<>> ELSE PathSegments(SliceFrom(p, e + 1)))

RECURSIVE DropCurDir(_)
DropCurDir(segs) ==
    IF segs = <<>> THEN <<>>
    ELSE (IF segs[1] = <<".">> THEN <<>> ELSE <<segs[1]>>) \o DropCurDir(Tail(segs))

ComponentsOf(p, segs) ==
    IF p # <<>> /\ p[1] = "/" THEN <<<<"/">>>> \o DropCurDir(segs)
    ELSE IF segs # <<>> /\ segs[1] = <<".">> THEN <<segs[1]>> \o DropCurDir(Tail(segs))
    ELSE DropCurDir(segs)

PathComponents(p) == ComponentsOf(p, PathSegments(p))

\* The keys of the reader's map that are the path file_name.
SamePath(fs, comps) == {k \in DOMAIN fs : PathComponents(k) = comps}

ReadHit(fs, hits) ==
    IF hits = {} THEN [ok |-> FALSE, contents |-> <<>>]
    ELSE [ok |-> TRUE, contents |-> fs[CHOOSE k \in hits : TRUE]]

\* TestFileReader::read_to_string: the contents stored under the path, or Err.
read_to_string(fs, file_name) ==
    ReadHit(fs, SamePath(fs, PathComponents(file_name)))

\* ------------------------------------------------------------------------
\* Link::replace_args and LinkType::relative_path
\* ------------------------------------------------------------------------

\* let target = base.as_ref().join(pat)
Target(link, base) == PathJoin(base, link.path)

\* A content that would be handed on with its placeholders unfilled.
SubstitutedNot(contents, link) == contents

\* Ok(Args::replace(contents.as_str(), &self.args))
Substituted(contents, link) == Args_replace(contents, link.args)

\* LinkType::Escaped => Ok((self.link_text[1..]).to_owned())
Unescaped(link) == Tail(link.link_text)

ReadResult(link, target, r) ==
    IF r.ok
    THEN [ok |-> TRUE, read |-> TRUE, target |-> target,
          new_content |-> Substituted(r.contents, link)]
    ELSE [ok |-> FALSE, read |-> TRUE, target |-> target, new_content |-> <<>>]

ReadTarget(link, target, fs) == ReadResult(link, target, read_to_string(fs, target))

\* An escaped link for which the file would be read like for any other.
Link_replace_argsOfAnyType(link, base, fs) ==
    ReadTarget(link, Target(link, base), fs)

\* Link::replace_args: [ok, read, target, new_content]; read tells whether
\* the file reader was called, and with which target.
Link_replace_args(link, base, fs) ==
    IF link.link_type = "Escaped"
    THEN [ok |-> TRUE, read |-> FALSE, target |-> <<>>,
          new_content |-> Unescaped(link)]
    ELSE ReadTarget(link, Target(link, base), fs)

\* .parent().expect("Included file should not be /")
ExpectParent(parent) ==
    IF parent.some THEN [kind |-> "Some", path |-> parent.path]
    ELSE [kind |-> "Panic", path |-> <<>>]

\* A base directory that would stay the caller's.
relative_pathOfCaller(link, base) ==
    IF link.link_type = "Escaped" THEN [kind |-> "None", path |-> <<>>]
    ELSE [kind |-> "Some", path |-> base]

\* LinkType::relative_path: "None" for an escaped link, "Some" with the parent
\* of the joined path, "Panic" where expect() finds no parent.
relative_path(link, base) ==
    IF link.link_type = "Escaped" THEN [kind |-> "None", path |-> <<>>]
    ELSE ExpectParent(PathParent(PathJoin(base, link.path)))

\* ------------------------------------------------------------------------
\* replace_template as a state machine.  A call is a frame on the stack; the
\* for loop over the links of its text advances one link per step; a
\* recursive call pushes a frame and its return pops it.
\* ------------------------------------------------------------------------

MAX_LINK_NESTED_DEPTH == 10

VARIABLES
    pc,           \* "run", "done", "panic" for a call of replace_template
                  \* (a call that never returns stays at "run");
                  \* "args", "args-done", "parse", "layout", "two", "junk" and
                  \* their "-done" for the pure functions
    files,        \* the file reader's map from path to contents
    source,       \* the source argument, passed down unchanged
    stack,        \* the active calls of replace_template, outermost first
    result,       \* the String the outermost call returned
    reads,        \* every call of read_to_string so far, in order
    diagnostics,  \* every error! record so far, in order
    input,        \* the arguments of the pure function under test
    output        \* its results

vars == <<pc, files, source, stack, result, reads, diagnostics, input, output>>

\* The locals of one call: the text, base (path) and depth arguments, the
\* links of the text, the index k of the link the loop is at,
\* previous_end_index and replaced.  hangs tells that the for loop, having
\* handled the links, waits for ever for the iterator's next answer.
\* results remembers, per link already handled, whether replace_args was Ok
\* and what was pushed for the link.
Frame(content, base, depth) ==
    Only({[chapter_content |-> content, base |-> base, depth |-> depth,
           links |-> it.links, hangs |-> it.hangs, k |-> 1,
           previous_end_index |-> 0, replaced |-> <<>>, results |-> <<>>] :
            it \in {LinkIter(content)}})

Top == stack[Len(stack)]

Cur == Top.links[Top.k]

\* A text before a link that would not be copied.
GapDropped(f, link) == <<>>

\* replaced.push_str(&chapter_content[previous_end_index..link.start_index])
Gap(f, link) == Slice(f.chapter_content, f.previous_end_index, link.start_index)

\* A cursor that would stay before a link that was replaced.
OkCursorAtStart(link) == link.start_index

\* previous_end_index after Ok and after Err.
OkCursor(link) == link.end_index

\* A cursor that would move past a link that failed.
ErrCursorPastLink(link) == link.end_index

ErrCursor(link) == link.start_index

\* if depth < MAX_LINK_NESTED_DEPTH
DepthOk(depth) == depth < MAX_LINK_NESTED_DEPTH

\* The depth argument of the recursive call.
NextDepth(depth) == depth + 1

\* replaced.push_str(..) of what a link came to.
Spliced(replaced, pushed) == replaced \o pushed

\* The start of a loop iteration in frame f: the text before the link.
Copied(f, link) == [f EXCEPT !.replaced = @ \o Gap(f, link)]

\* The end of a loop iteration in frame f.
Advance(f, pushed, cursor, res) ==
    [f EXCEPT !.replaced = Spliced(@, pushed), !.previous_end_index = cursor,
              !.k = @ + 1, !.results = Append(@, res)]

SetTop(f) == [stack EXCEPT ![Len(stack)] = f]

\* reads after replace_args was called for link in frame f; an entry keeps
\* the path asked for and, of the asking call, the link, base and depth.
ReadsAfter(ra, link, f) ==
    IF ra.read
    THEN Append(reads, [target |-> ra.target, link_text |-> link.link_text,
                        path |-> link.path, base |-> f.base, depth |-> f.depth])
    ELSE reads

AtLink == pc = "run" /\ Top.k <= Len(Top.links)

\* The for loop of the innermost call is over: the iterator returned None.
LoopOver == pc = "run" /\ Top.k > Len(Top.links) /\ ~Top.hangs

\* link.replace_args(path, file_reader) for the link the loop is at.
ReplaceArgs == {Link_replace_args(Cur, Top.base, files)}

\* Ok(new_content), depth below the bound, relative_path is None:
\* new_content is pushed as it is.
LinkPushContent ==
    /\ AtLink
    /\ \E ra \in ReplaceArgs :
           /\ ra.ok
           /\ DepthOk(Top.depth)
           /\ relative_path(Cur, Top.base).kind = "None"
           /\ stack' = SetTop(Advance(Copied(Top, Cur), ra.new_content, OkCursor(Cur),
                                      [ok |-> TRUE, text |-> ra.new_content]))
           /\ reads' = ReadsAfter(ra, Cur, Top)
    /\ UNCHANGED <<pc, files, source, result, diagnostics, input, output>>

\* Ok(new_content), depth below the bound, relative_path is Some(rel_path):
\* replace_template is called on new_content.
LinkRecurse ==
    /\ AtLink
    /\ \E ra \in ReplaceArgs, rp \in {relative_path(Cur, Top.base)} :
           /\ ra.ok
           /\ DepthOk(Top.depth)
           /\ rp.kind = "Some"
           /\ stack' = Append(SetTop(Copied(Top, Cur)),
                              Frame(ra.new_content, rp.path, NextDepth(Top.depth)))
           /\ reads' = ReadsAfter(ra, Cur, Top)
    /\ UNCHANGED <<pc, files, source, result, diagnostics, input, output>>

\* Ok(new_content), depth below the bound, and expect() in relative_path
\* panics: the call is unwound.
LinkPanic ==
    /\ AtLink
    /\ \E ra \in ReplaceArgs :
           /\ ra.ok
           /\ DepthOk(Top.depth)
           /\ relative_path(Cur, Top.base).kind = "Panic"
           /\ reads' = ReadsAfter(ra, Cur, Top)
    /\ pc' = "panic"
    /\ UNCHANGED <<files, source, stack, result, diagnostics, input, output>>

\* Ok(new_content) at the depth bound: an error is logged and nothing is
\* pushed for the link.
LinkTooDeep ==
    /\ AtLink
    /\ \E ra \in ReplaceArgs :
           /\ ra.ok
           /\ ~DepthOk(Top.depth)
           /\ stack' = SetTop(Advance(Copied(Top, Cur), <<>>, OkCursor(Cur),
                                      [ok |-> TRUE, text |-> <<>>]))
           /\ reads' = ReadsAfter(ra, Cur, Top)
    /\ diagnostics' = Append(diagnostics,
           [kind |-> "stack_overflow", source |-> source])
    /\ UNCHANGED <<pc, files, source, result, input, output>>

\* Err(err): an error is logged with the link's text and the reader's
\* message, and the cursor stays at the start of the link.
LinkErr ==
    /\ AtLink
    /\ \E ra \in ReplaceArgs :
           /\ ~ra.ok
           /\ stack' = SetTop(Advance(Copied(Top, Cur), <<>>, ErrCursor(Cur),
                                      [ok |-> FALSE, text |-> <<>>]))
           /\ reads' = ReadsAfter(ra, Cur, Top)
           /\ diagnostics' = Append(diagnostics,
                  [kind |-> "read_error", link_text |-> Cur.link_text,
                   target |-> ra.target])
    /\ UNCHANGED <<pc, files, source, result, input, output>>

\* The String a call returns once its loop is over.
Returned(f) == f.replaced \o SliceFrom(f.chapter_content, f.previous_end_index)

\* The caller's frame after the call made for its link returned out.
Resumed(caller, out) ==
    Advance(caller, out, OkCursor(caller.links[caller.k]),
            [ok |-> TRUE, text |-> out])

\* A recursive call returns: the caller pushes the returned String.
ReturnNested ==
    /\ LoopOver
    /\ Len(stack) > 1
    /\ stack' = [SubSeq(stack, 1, Len(stack) - 1) EXCEPT ![Len(stack) - 1] =
                    Resumed(stack[Len(stack) - 1], Returned(Top))]
    /\ UNCHANGED <<pc, files, source, result, reads, diagnostics, input, output>>

\* The outermost call returns.
ReturnTop ==
    /\ LoopOver
    /\ Len(stack) = 1
    /\ result' = Returned(Top)
    /\ pc' = "done"
    /\ UNCHANGED <<files, source, stack, reads, diagnostics, input, output>>

\* ------------------------------------------------------------------------
\* Inputs.  Texts are written out character by character; the comment above
\* each gives the text.
\* ------------------------------------------------------------------------

\* footer.md
PathFooter ==
    <<"f", "o", "o", "t", "e", "r", ".", "m", "d">>

\* g
PathG ==
    <<"g">>

\* d/h
PathDH ==
    <<"d", "/", "h">>

\* d/i
PathDI ==
    <<"d", "/", "i">>

\* i
PathI ==
    <<"i">>

\* s
PathS ==
    <<"s">>

\* p
PathP ==
    <<"p">>

\* q
PathQ ==
    <<"q">>

\* /
PathRoot ==
    <<"/">>

\* b/g
PathBG ==
    <<"b", "/", "g">>

\* Hello [[#name]]
FileFooter ==
    <<"H", "e", "l", "l", "o", " ", "[", "[", "#", "n", "a", "m", "e", "]",
      "]">>

\* By [[#a Anon]]
FileG ==
    <<"B", "y", " ", "[", "[", "#", "a", " ", "A", "n", "o", "n", "]", "]">>

\* # [[#t]]\n{{#template i t=[[#t]]}}
FileDH ==
    <<"#", " ", "[", "[", "#", "t", "]", "]", "\n", "{", "{", "#", "t",
      "e", "m", "p", "l", "a", "t", "e", " ", "i", " ", "t", "=", "[", "[",
      "#", "t", "]", "]", "}", "}">>

\* <[[#t]]>
FileDI ==
    <<"<", "[", "[", "#", "t", "]", "]", ">">>

\* top
FileI ==
    <<"t", "o", "p">>

\* \\{{#template g}}\n{{#template s}}
FileS ==
    <<"\\", "{", "{", "#", "t", "e", "m", "p", "l", "a", "t", "e", " ",
      "g", "}", "}", "\n", "{", "{", "#", "t", "e", "m", "p", "l", "a",
      "t", "e", " ", "s", "}", "}">>

\* p{{#template q}}
FileP ==
    <<"p", "{", "{", "#", "t", "e", "m", "p", "l", "a", "t", "e", " ", "q",
      "}", "}">>

\* q{{#template p}}
FileQ ==
    <<"q", "{", "{", "#", "t", "e", "m", "p", "l", "a", "t", "e", " ", "p",
      "}", "}">>

\* root
FileRoot ==
    <<"r", "o", "o", "t">>

\* Bg
FileBG ==
    <<"B", "g">>

\* ch.md
SourceName ==
    <<"c", "h", ".", "m", "d">>

\* b
BaseB ==
    <<"b">>

\* a 
DocLit ==
    <<"a", " ">>

\* \n
DocNl ==
    <<"\n">>

\* {{#template footer.md name=World}}
DocFooter ==
    <<"{", "{", "#", "t", "e", "m", "p", "l", "a", "t", "e", " ", "f", "o",
      "o", "t", "e", "r", ".", "m", "d", " ", "n", "a", "m", "e", "=", "W",
      "o", "r", "l", "d", "}", "}">>

\* {{#template g}}
DocG ==
    <<"{", "{", "#", "t", "e", "m", "p", "l", "a", "t", "e", " ", "g", "}",
      "}">>

\* {{#template^Lg^La=Ada}}, ^L being a form feed
DocFormFeed ==
    <<"{", "{", "#", "t", "e", "m", "p", "l", "a", "t", "e", "\f", "g", "\f",
      "a", "=", "A", "d", "a", "}", "}">>

\* {{#template g a=Ada}}
DocGAda ==
    <<"{", "{", "#", "t", "e", "m", "p", "l", "a", "t", "e", " ", "g", " ",
      "a", "=", "A", "d", "a", "}", "}">>

\* {{#template m}}
DocMissing ==
    <<"{", "{", "#", "t", "e", "m", "p", "l", "a", "t", "e", " ", "m", "}",
      "}">>

\* \\{{#template x.md}}
DocEscaped ==
    <<"\\", "{", "{", "#", "t", "e", "m", "p", "l", "a", "t", "e", " ",
      "x", ".", "m", "d", "}", "}">>

\* {{#template d/h t=T}}
DocNested ==
    <<"{", "{", "#", "t", "e", "m", "p", "l", "a", "t", "e", " ", "d", "/",
      "h", " ", "t", "=", "T", "}", "}">>

\* {{#template s}}
DocSelf ==
    <<"{", "{", "#", "t", "e", "m", "p", "l", "a", "t", "e", " ", "s", "}",
      "}">>

\* {{#template p}}
DocCycle ==
    <<"{", "{", "#", "t", "e", "m", "p", "l", "a", "t", "e", " ", "p", "}",
      "}">>

\* {{#template /}}
DocRoot ==
    <<"{", "{", "#", "t", "e", "m", "p", "l", "a", "t", "e", " ", "/", "}",
      "}">>

\* {{#template\n g\n a=Ada\n}}
DocMulti ==
    <<"{", "{", "#", "t", "e", "m", "p", "l", "a", "t", "e", "\n", " ",
      "g", "\n", " ", "a", "=", "A", "d", "a", "\n", "}", "}">>

\* x {{#template m}} y {{#template g a=Ada}} z\n\\{{#template x.md}} w
DocMixed ==
    <<"x", " ", "{", "{", "#", "t", "e", "m", "p", "l", "a", "t", "e", " ",
      "m", "}", "}", " ", "y", " ", "{", "{", "#", "t", "e", "m", "p", "l",
      "a", "t", "e", " ", "g", " ", "a", "=", "A", "d", "a", "}", "}", " ",
      "z", "\n", "\\", "{", "{", "#", "t", "e", "m", "p", "l", "a", "t",
      "e", " ", "x", ".", "m", "d", "}", "}", " ", "w">>

\* Hello World
HelloWorld ==
    <<"H", "e", "l", "l", "o", " ", "W", "o", "r", "l", "d">>

\* By Ada
ByAda ==
    <<"B", "y", " ", "A", "d", "a">>

\* # T\n<T>
NestedOut ==
    <<"#", " ", "T", "\n", "<", "T", ">">>

\* name
KeyName ==
    <<"n", "a", "m", "e">>

\* a
KeyA ==
    <<"a">>

\* World
ValWorld ==
    <<"W", "o", "r", "l", "d">>

\* Ada
ValAda ==
    <<"A", "d", "a">>

\* Hello 
ArgHello ==
    <<"H", "e", "l", "l", "o", " ">>

\* By 
ArgBy ==
    <<"B", "y", " ">>

\* Anon
ValAnon ==
    <<"A", "n", "o", "n">>

\* [[#t]]
ArgT ==
    <<"[", "[", "#", "t", "]", "]">>

\* [[#name]]
ArgPlain ==
    <<"[", "[", "#", "n", "a", "m", "e", "]", "]">>

\* [[#a Anon]]
ArgDefault ==
    <<"[", "[", "#", "a", " ", "A", "n", "o", "n", "]", "]">>

\* \\[[#name]]
ArgEscaped ==
    <<"\\", "[", "[", "#", "n", "a", "m", "e", "]", "]">>

\* /
ArgSlash ==
    <<"/">>

\* [[ #a  ]]
ArgSpaced ==
    <<"[", "[", " ", "#", "a", " ", " ", "]", "]">>

\* [[#name x y]]
ArgDefault2 ==
    <<"[", "[", "#", "n", "a", "m", "e", " ", "x", " ", "y", "]", "]">>

\* \n
ArgNl ==
    <<"\n">>

\* lang
KeyLang ==
    <<"l", "a", "n", "g">>

\* math
KeyMath ==
    <<"m", "a", "t", "h">>

\* authors
KeyAuthors ==
    <<"a", "u", "t", "h", "o", "r", "s">>

\* rust
ValRust ==
    <<"r", "u", "s", "t">>

\* 2+2=4
ValMath ==
    <<"2", "+", "2", "=", "4">>

\* Goudham & Hazel
ValAuthors ==
    <<"G", "o", "u", "d", "h", "a", "m", " ", "&", " ", "H", "a", "z", "e",
      "l">>

\* x y=z
ValPairLike ==
    <<"x", " ", "y", "=", "z">>

\* 1 
ValTrailing ==
    <<"1", " ">>

\* t.md
PathT ==
    <<"t", ".", "m", "d">>

\* {{#template
Open ==
    <<"{", "{", "#", "t", "e", "m", "p", "l", "a", "t", "e">>

\* }}
Close ==
    <<"}", "}">>

\* \n
NlPlain ==
    <<"\n">>

\* \n    
NlIndent ==
    <<"\n", " ", " ", " ", " ">>

\* \r\n
NlCrLf ==
    <<"\r", "\n">>

\* The bounds of the inputs: how many parts a document, an included text and
\* an argument list are put together from.
MaxDocParts == 2

MaxArgParts == 2

MaxPairs == 2

RECURSIVE Flatten(_)
Flatten(parts) == IF parts = <<>> THEN <<>> ELSE parts[1] \o Flatten(Tail(parts))

SeqsUpTo(S, n) == UNION {[1..m -> S] : m \in 0..n}

\* A file tree with plain, default, nested, self-including and mutually
\* including templates, and a reader with no file at all
\* (TestFileReader::default()).
FileTree ==
    (PathFooter :> FileFooter) @@ (PathG :> FileG) @@ (PathDH :> FileDH)
      @@ (PathDI :> FileDI) @@ (PathI :> FileI) @@ (PathS :> FileS)
      @@ (PathP :> FileP) @@ (PathQ :> FileQ) @@ (PathRoot :> FileRoot)
      @@ (PathBG :> FileBG)

FileTrees == {FileTree, EmptyMap}

Bases == {<<>>, BaseB}

DocParts ==
    {DocLit, DocNl, DocFooter, DocG, DocGAda, DocFormFeed, DocMissing,
     DocEscaped, DocNested, DocSelf, DocCycle, DocRoot, DocMulti, DocMixed}

Documents == {Flatten(ps) : ps \in SeqsUpTo(DocParts, MaxDocParts) \ {<<>>}}

\* replace_template(doc, file_reader, base, source, 0)
Init ==
    /\ pc = "run"
    /\ files \in FileTrees
    /\ source = SourceName
    /\ \E doc \in Documents, base \in Bases : stack = <<Frame(doc, base, 0)>>
    /\ result = <<>>
    /\ reads = <<>>
    /\ diagnostics = <<>>
    /\ input = <<>>
    /\ output = <<>>

Next ==
    \/ LinkPushContent
    \/ LinkRecurse
    \/ LinkPanic
    \/ LinkTooDeep
    \/ LinkErr
    \/ ReturnNested
    \/ ReturnTop

Spec == Init /\ [][Next]_vars

\* The same call on documents of up to MaxCallParts parts, most of them with
\* an invocation that recurses.  replace_template is one sequential call: it
\* keeps taking its next step.
MaxCallParts == 1

CallParts ==
    {DocLit, DocEscaped, DocFooter, DocMissing, DocNested, DocSelf, DocCycle,
     DocRoot}

InitCall ==
    /\ pc = "run"
    /\ files \in FileTrees
    /\ source = SourceName
    /\ \E ps \in SeqsUpTo(CallParts, MaxCallParts) \ {<<>>}, base \in Bases :
           stack = <<Frame(Flatten(ps), base, 0)>>
    /\ result = <<>>
    /\ reads = <<>>
    /\ diagnostics = <<>>
    /\ input = <<>>
    /\ output = <<>>

\* An invocation whose inline argument text is ManyTokens tokens without
\* '=', each followed by a space: the search of TEMPLATE_ARGS backtracks
\* five times for each of them.
ManyTokens == 200000

\* x x x ... x 
LongArgs == [i \in 1..(2 * ManyTokens) |-> IF i % 2 = 1 THEN "x" ELSE " "]

\* {{#template g}}{{#template g x x x ... x }}
DocLong == DocG \o Open \o <<" ", "g", " ">> \o LongArgs \o Close

\* replace_template(DocLong, file_reader, "", source, 0)
InitLong ==
    /\ pc = "run"
    /\ files = FileTree
    /\ source = SourceName
    /\ stack = <<Frame(DocLong, <<>>, 0)>>
    /\ result = <<>>
    /\ reads = <<>>
    /\ diagnostics = <<>>
    /\ input = <<>>
    /\ output = <<>>

InitFair == InitCall \/ InitLong

FairSpec == InitFair /\ [][Next]_vars /\ WF_vars(Next)

\* ------------------------------------------------------------------------
\* Args::replace as a function of an included text and an argument map
\* ------------------------------------------------------------------------

ArgParts ==
    {ArgHello, ArgBy, ArgPlain, ArgDefault, ArgEscaped, ArgSlash, ArgSpaced,
     ArgDefault2, ArgNl}

ArgContents == {Flatten(ps) : ps \in SeqsUpTo(ArgParts, MaxArgParts) \ {<<>>}}

ArgMaps ==
    {EmptyMap, KeyName :> ValWorld, KeyA :> ValAda,
     (KeyName :> ValWorld) @@ (KeyA :> ValAda)}

InitArgs ==
    /\ pc = "args"
    /\ input \in [contents : ArgContents, all_args : ArgMaps]
    /\ output = <<>>
    /\ files = EmptyMap
    /\ source = <<>>
    /\ stack = <<>>
    /\ result = <<>>
    /\ reads = <<>>
    /\ diagnostics = <<>>

ArgsReplace ==
    /\ pc = "args"
    /\ output' = Args_replace(input.contents, input.all_args)
    /\ pc' = "args-done"
    /\ UNCHANGED <<files, source, stack, result, reads, diagnostics, input>>

NextArgs == ArgsReplace

SpecArgs == InitArgs /\ [][NextArgs]_vars

\* ------------------------------------------------------------------------
\* extract_template_links on one invocation written in the two layouts
\* ------------------------------------------------------------------------

Pairs ==
    {<<KeyLang, ValRust>>, <<KeyMath, ValMath>>, <<KeyAuthors, ValAuthors>>,
     <<KeyLang, <<>>>>, <<KeyMath, ValPairLike>>, <<KeyAuthors, ValTrailing>>,
     <<KeyMath, ValRust>>}

LineBreakStyles == {NlPlain, NlIndent, NlCrLf}

RECURSIVE JoinPairs(_, _)
JoinPairs(pairs, sep) ==
    IF pairs = <<>> THEN <<>>
    ELSE sep \o pairs[1][1] \o <<"=">> \o pairs[1][2] \o JoinPairs(Tail(pairs), sep)

\* {{#template path name1=value1 name2=value2}}
SingleLine(path, pairs) ==
    Open \o <<" ">> \o path \o JoinPairs(pairs, <<" ">>) \o Close

\* The path and each pair on a line of their own.
MultiLine(path, pairs, nl) ==
    Open \o nl \o path \o JoinPairs(pairs, nl) \o nl \o Close

InitParse ==
    /\ pc = "parse"
    /\ input \in [path : {PathT, PathDH}, pairs : SeqsUpTo(Pairs, MaxPairs),
                  nl : LineBreakStyles]
    /\ output = [inline |-> <<>>, multi |-> <<>>, did |-> {}]
    /\ files = EmptyMap
    /\ source = <<>>
    /\ stack = <<>>
    /\ result = <<>>
    /\ reads = <<>>
    /\ diagnostics = <<>>

ExtractInline ==
    /\ pc = "parse"
    /\ "inline" \notin output.did
    /\ ~LinkIter(SingleLine(input.path, input.pairs)).hangs
    /\ output' = [output EXCEPT
                    !.inline = extract_template_links(SingleLine(input.path, input.pairs)),
                    !.did = @ \cup {"inline"}]
    /\ UNCHANGED <<pc, files, source, stack, result, reads, diagnostics, input>>

ExtractMultiLine ==
    /\ pc = "parse"
    /\ "multi" \notin output.did
    /\ ~LinkIter(MultiLine(input.path, input.pairs, input.nl)).hangs
    /\ output' = [output EXCEPT
                    !.multi = extract_template_links(
                                  MultiLine(input.path, input.pairs, input.nl)),
                    !.did = @ \cup {"multi"}]
    /\ UNCHANGED <<pc, files, source, stack, result, reads, diagnostics, input>>

NextParse == ExtractInline \/ ExtractMultiLine

SpecParse == InitParse /\ [][NextParse]_vars

\* ------------------------------------------------------------------------
\* replace_template on texts with truncated, empty and foreign markers
\* ------------------------------------------------------------------------

\* {{#template
TruncBare ==
    <<"{", "{", "#", "t", "e", "m", "p", "l", "a", "t", "e">>

\* {{#template f.md
TruncPath ==
    <<"{", "{", "#", "t", "e", "m", "p", "l", "a", "t", "e", " ", "f", ".",
      "m", "d">>

\* {{#template f.md a=1
TruncArgs ==
    <<"{", "{", "#", "t", "e", "m", "p", "l", "a", "t", "e", " ", "f", ".",
      "m", "d", " ", "a", "=", "1">>

\* \\{{#template f.md
TruncEscaped ==
    <<"\\", "{", "{", "#", "t", "e", "m", "p", "l", "a", "t", "e", " ",
      "f", ".", "m", "d">>

\* {{}}
EmptyBraces ==
    <<"{", "{", "}", "}">>

\* {{#}}
EmptyHash ==
    <<"{", "{", "#", "}", "}">>

\* {{#templatee file.rs}}
ForeignLonger ==
    <<"{", "{", "#", "t", "e", "m", "p", "l", "a", "t", "e", "e", " ", "f",
      "i", "l", "e", ".", "r", "s", "}", "}">>

\* {{#include}}
ForeignInclude ==
    <<"{", "{", "#", "i", "n", "c", "l", "u", "d", "e", "}", "}">>

\* The marker-like fragments that are no invocation: markers cut short,
\* markers without anything in them, markers of another keyword.
MalformedParts ==
    {TruncBare, TruncPath, TruncArgs, TruncEscaped, EmptyBraces, EmptyHash,
     ForeignLonger, ForeignInclude}

\* How many parts a text with such fragments is put together from.
MaxScanParts == 2

ScanParts ==
    MalformedParts
      \cup {DocLit, DocNl, DocEscaped, DocG, DocMissing, DocSelf, DocRoot}

\* replace_template(doc, file_reader, base, source, 0)
InitScan ==
    /\ pc = "run"
    /\ files \in FileTrees
    /\ source = SourceName
    /\ \E ps \in SeqsUpTo(ScanParts, MaxScanParts) \ {<<>>}, base \in Bases :
           stack = <<Frame(Flatten(ps), base, 0)>>
    /\ result = <<>>
    /\ reads = <<>>
    /\ diagnostics = <<>>
    /\ input = <<>>
    /\ output = <<>>

SpecScan == InitScan /\ [][Next]_vars

\* ------------------------------------------------------------------------
\* replace_template entered with a depth argument of its caller's choosing
\* ------------------------------------------------------------------------

\* How far above MAX_LINK_NESTED_DEPTH the depth argument goes, and how many
\* parts a document is put together from.
MaxOverDepth == 1

MaxDepthParts == 2

\* The depth arguments: the outermost call of a chapter, and the depths
\* around the bound.
EntryDepths ==
    {0} \cup ((MAX_LINK_NESTED_DEPTH - 1)..(MAX_LINK_NESTED_DEPTH + MaxOverDepth))

DepthParts ==
    {DocLit, DocFooter, DocG, DocGAda, DocMissing, DocEscaped, DocNested,
     DocSelf, DocRoot}

\* replace_template(doc, file_reader, base, source, depth)
InitDepth ==
    /\ pc = "run"
    /\ files \in FileTrees
    /\ source = SourceName
    /\ \E ps \in SeqsUpTo(DepthParts, MaxDepthParts) \ {<<>>}, base \in Bases,
          depth \in EntryDepths :
           stack = <<Frame(Flatten(ps), base, depth)>>
    /\ result = <<>>
    /\ reads = <<>>
    /\ diagnostics = <<>>
    /\ input = <<>>
    /\ output = <<>>

SpecDepth == InitDepth /\ [][Next]_vars

\* ------------------------------------------------------------------------
\* extract_template_links on one invocation with line breaks in some places
\* ------------------------------------------------------------------------

\* How many pairs such an invocation has.
MaxLayoutPairs == 2

\* Where an invocation can have a line break: before the path, before the
\* first pair, between two pairs, before the closing }}.
BreakPlaces == {"path", "args", "pairs", "close"}

\* The separator written at a place: the line break nl where the invocation
\* has one there, otherwise a space (nothing before the closing }}).
SepAt(place, breaks, nl) ==
    IF place \in breaks THEN nl
    ELSE IF place = "close" THEN <<>> ELSE <<" ">>

\* {{#template<s>path<s>name1=value1<s>name2=value2<s>}}
Layout(path, pairs, breaks, nl) ==
    Open \o SepAt("path", breaks, nl) \o path \o SepAt("args", breaks, nl)
      \o pairs[1][1] \o <<"=">> \o pairs[1][2]
      \o JoinPairs(Tail(pairs), SepAt("pairs", breaks, nl))
      \o SepAt("close", breaks, nl) \o Close

InitLayout ==
    /\ pc = "layout"
    /\ input \in [path : {PathT}, pairs : SeqsUpTo(Pairs, MaxLayoutPairs) \ {<<>>},
                  breaks : SUBSET BreakPlaces, nl : LineBreakStyles]
    /\ output = <<>>
    /\ files = EmptyMap
    /\ source = <<>>
    /\ stack = <<>>
    /\ result = <<>>
    /\ reads = <<>>
    /\ diagnostics = <<>>

ExtractLayout ==
    /\ pc = "layout"
    /\ ~LinkIter(Layout(input.path, input.pairs, input.breaks, input.nl)).hangs
    /\ output' = extract_template_links(
                     Layout(input.path, input.pairs, input.breaks, input.nl))
    /\ pc' = "layout-done"
    /\ UNCHANGED <<files, source, stack, result, reads, diagnostics, input>>

NextLayout == ExtractLayout

SpecLayout == InitLayout /\ [][NextLayout]_vars

\* ------------------------------------------------------------------------
\* Args::replace on two placeholders with a separator between them
\* ------------------------------------------------------------------------

\* How many characters the separator has at most.
MaxSepLen == 2

SepChars == {"/", "-", " "}

Separators == SeqsUpTo(SepChars, MaxSepLen) \ {<<>>}

PlaceholderNames == {KeyA, <<"b">>, KeyName}

\* [[#name]]
Placeholder(name) == <<"[", "[", "#">> \o name \o <<"]", "]">>

\* [[#first]]<sep>[[#second]]
TwoPlaceholders(first, sep, second) ==
    Placeholder(first) \o sep \o Placeholder(second)

InitTwo ==
    /\ pc = "two"
    /\ input \in [first : PlaceholderNames, sep : Separators,
                  second : PlaceholderNames,
                  all_args : {EmptyMap, KeyA :> ValAda,
                              (KeyA :> ValAda) @@ (<<"b">> :> ValWorld),
                              (KeyName :> ValWorld) @@ (<<"b">> :> ValRust)}]
    /\ output = <<>>
    /\ files = EmptyMap
    /\ source = <<>>
    /\ stack = <<>>
    /\ result = <<>>
    /\ reads = <<>>
    /\ diagnostics = <<>>

\* extract_args and Args::replace on the same content.
ReplaceTwo ==
    /\ pc = "two"
    /\ output' =
           [captured |-> extract_args(
                             TwoPlaceholders(input.first, input.sep, input.second)),
            replaced |-> Args_replace(
                             TwoPlaceholders(input.first, input.sep, input.second),
                             input.all_args)]
    /\ pc' = "two-done"
    /\ UNCHANGED <<files, source, stack, result, reads, diagnostics, input>>

NextTwo == ReplaceTwo

SpecTwo == InitTwo /\ [][NextTwo]_vars

\* ------------------------------------------------------------------------
\* extract_template_links on an invocation with a token that has no '='
\* ------------------------------------------------------------------------

\* How many pairs come before, and how many after, the token without '='.
MaxJunkPairs == 1

\* Pairs whose values are one token each.
TokenPairs == {<<KeyLang, ValRust>>, <<KeyMath, ValMath>>}

JunkTokens == {<<"j", "u", "n", "k">>, <<"x">>}

\* The invocation of path with the pairs before, the token and the pairs
\* after: on one line, or with the path and every item on a line of its own.
WithJunk(path, before, junk, after, sep, last) ==
    Open \o sep \o path \o JoinPairs(before, sep) \o sep \o junk
      \o JoinPairs(after, sep) \o last \o Close

JunkText(in) ==
    IF in.layout = "inline"
    THEN WithJunk(in.path, in.before, in.junk, in.after, <<" ">>, <<>>)
    ELSE WithJunk(in.path, in.before, in.junk, in.after, in.nl, in.nl)

InitJunk ==
    /\ pc = "junk"
    /\ input \in [path : {PathT}, before : SeqsUpTo(TokenPairs, MaxJunkPairs),
                  junk : JunkTokens, after : SeqsUpTo(TokenPairs, MaxJunkPairs),
                  layout : {"inline", "multi"}, nl : LineBreakStyles]
    /\ output = <<>>
    /\ files = EmptyMap
    /\ source = <<>>
    /\ stack = <<>>
    /\ result = <<>>
    /\ reads = <<>>
    /\ diagnostics = <<>>

\* extract_template_links on the invocation, with what it prints on stderr.
ExtractJunk ==
    /\ pc = "junk"
    /\ ~LinkIter(JunkText(input)).hangs
    /\ output' =
           [links |-> extract_template_links(JunkText(input)),
            messages |-> Link_from_capture_messages(TEMPLATE(JunkText(input), 0))]
    /\ pc' = "junk-done"
    /\ UNCHANGED <<files, source, stack, result, reads, diagnostics, input>>

NextJunk == ExtractJunk

SpecJunk == InitJunk /\ [][NextJunk]_vars

\* ------------------------------------------------------------------------
\* Properties
\* ------------------------------------------------------------------------

\* A text put together again from the text outside the spans and one piece
\* per span, from the k-th span on; prev is where the span before ended.
RECURSIVE AssembledFrom(_, _, _, _, _)
AssembledFrom(text, spans, pieces, k, prev) ==
    IF k > Len(spans) THEN SliceFrom(text, prev)
    ELSE Slice(text, prev, spans[k].start_index) \o pieces[k]
           \o AssembledFrom(text, spans, pieces, k + 1, spans[k].end_index)

Assembled(text, spans, pieces) == AssembledFrom(text, spans, pieces, 1, 0)

\* The value mapped to name, or the fallback where the mapping has no name.
MappedOr(all_args, name, fallback) ==
    IF name \in DOMAIN all_args THEN all_args[name] ELSE fallback

\* What each placeholder of caps is to give way to when the placeholders of
\* type args_type follow the rule mapped-value-or-fallback and the others are
\* as Args::replace leaves them.
PiecesBy(caps, all_args, args_type, fallback(_)) ==
    [k \in 1..Len(caps) |->
        IF caps[k].args_type = args_type
        THEN MappedOr(all_args, caps[k].argument, fallback(caps[k]))
        ELSE ArgValue(caps[k], all_args)]

Nothing(captured_arg) == <<>>

DefaultText(captured_arg) == captured_arg.default_value

HasType(caps, args_type) == \E k \in 1..Len(caps) : caps[k].args_type = args_type

PlainFilled(contents, all_args, caps) ==
    Assembled(contents, caps, PiecesBy(caps, all_args, "Plain", Nothing))

DefaultFilled(contents, all_args, caps) ==
    Assembled(contents, caps, PiecesBy(caps, all_args, "Default", DefaultText))

\* C1: Args::replace returns the text in which every plain placeholder
\* [[#name]] has given way to the value mapped to name, or to nothing where
\* the mapping has no name, and the text around the placeholders is kept;
\* with the arguments of {{#template footer.md name=World}}, the text
\* "Hello [[#name]]" becomes "Hello World".
PlainPlaceholderResolved ==
    pc = "args-done" =>
        /\ output = PlainFilled(input.contents, input.all_args,
                                extract_args(input.contents))
        /\ (input.contents = FileFooter
              /\ input.all_args = extract_template_links(DocFooter)[1].args)
             => output = HelloWorld

\* Args::replace has filled "Hello [[#name]]" from name=World.
PlainPlaceholderWitness ==
    /\ pc = "args-done"
    /\ input.contents = FileFooter
    /\ input.all_args = (KeyName :> ValWorld)
    /\ HasType(extract_args(input.contents), "Plain")
    /\ output = HelloWorld

\* C2: Args::replace returns the text in which every placeholder
\* [[#name default text]] has given way to the value mapped to name whenever
\* the mapping has name, and to the default text only where it has not;
\* "By [[#a Anon]]" becomes "By Ada" with a=Ada and "By Anon" without.
DefaultPlaceholderResolved ==
    pc = "args-done" =>
        /\ output = DefaultFilled(input.contents, input.all_args,
                                  extract_args(input.contents))
        /\ input.contents = ArgBy \o ArgDefault =>
             output = ArgBy \o (IF KeyA \in DOMAIN input.all_args
                                THEN ValAda ELSE ValAnon)

\* Args::replace has put the mapped value where a default was written.
DefaultPlaceholderWitness ==
    /\ pc = "args-done"
    /\ input.contents = ArgBy \o ArgDefault
    /\ KeyA \in DOMAIN input.all_args
    /\ extract_args(input.contents)[1].default_value = ValAnon
    /\ output = ByAda

\* replace_template is being, or has been, called.
Expanding == pc \in {"run", "done", "panic"}

\* The loop of frame f is over.
Finished(f) == f.k > Len(f.links) /\ ~f.hangs

AllOfType(links, link_type) == \A i \in 1..Len(links) : links[i].link_type = link_type

\* Every link written without its first character, the backslash.
Unescapings(links) == [i \in 1..Len(links) |-> Tail(links[i].link_text)]

\* What the links of frame f came to, for a frame whose loop is over: what
\* was pushed for a link whose replace_args was Ok, the marker as written for
\* one whose replace_args was Err.
PiecesOf(f) ==
    [i \in 1..Len(f.links) |->
        IF f.results[i].ok THEN f.results[i].text ELSE f.links[i].link_text]

\* C3: in the call at depth 0, an escaped invocation comes to its own text
\* without the backslash, the file reader is not called for it and no
\* recursive call is made for it; a text whose invocations are all escaped
\* is returned with just those backslashes removed and without any read, so
\* \{{#template x.md}} gives {{#template x.md}}.
EscapedAtTopLevel ==
    Expanding =>
        /\ \A i \in 1..Len(stack[1].results) :
               stack[1].links[i].link_type = "Escaped" =>
                   stack[1].results[i] =
                       [ok |-> TRUE, text |-> Tail(stack[1].links[i].link_text)]
        /\ \A j \in 1..Len(reads) :
               reads[j].depth = 0 => reads[j].link_text[1] # ESCAPE_CHAR
        /\ Len(stack) > 1 => stack[1].links[stack[1].k].link_type = "Template"
        /\ (pc = "done" /\ AllOfType(stack[1].links, "Escaped")) =>
               /\ result = Assembled(stack[1].chapter_content, stack[1].links,
                                     Unescapings(stack[1].links))
               /\ reads = <<>>
        /\ (pc = "done" /\ stack[1].chapter_content = DocEscaped) =>
               result = Tail(DocEscaped)

\* "a \{{#template x.md}}" has been expanded to "a {{#template x.md}}"
\* with files at hand and none read.
EscapedAtTopLevelWitness ==
    /\ pc = "done"
    /\ files = FileTree
    /\ stack[1].chapter_content = DocLit \o DocEscaped
    /\ stack[1].links[1].link_type = "Escaped"
    /\ result = DocLit \o Tail(DocEscaped)
    /\ reads = <<>>

\* Frame f handled a link whose file could not be read.
SomeFailed(f) == \E i \in 1..Len(f.results) : ~f.results[i].ok

\* C4: a call of replace_template in which the file reader returned an error
\* for a Template invocation still handles every later invocation and
\* returns; what it returns is the text with the failed invocation's marker
\* as written, once and in its place, every character outside the markers
\* unchanged, and every other invocation replaced by what it came to; the
\* invocations after a failed one whose files can be read are expanded.
UnresolvableFileKept ==
    (pc \in {"run", "done"} /\ Finished(Top) /\ SomeFailed(Top)) =>
        /\ Len(Top.results) = Len(Top.links)
        /\ Returned(Top) = Assembled(Top.chapter_content, Top.links, PiecesOf(Top))
        /\ pc = "done" => result = Returned(Top)
        /\ \A i \in 1..Len(Top.links) :
               /\ ~Top.results[i].ok =>
                      /\ Top.links[i].link_type = "Template"
                      /\ ~read_to_string(files, PathJoin(Top.base, Top.links[i].path)).ok
               /\ (Top.links[i].link_type = "Template"
                     /\ read_to_string(files, PathJoin(Top.base, Top.links[i].path)).ok)
                    => Top.results[i].ok
        /\ (Top.chapter_content = DocMissing \o DocFooter /\ Top.base = <<>>
              /\ files = FileTree)
             => Returned(Top) = DocMissing \o HelloWorld

\* "{{#template m}}{{#template footer.md name=World}}" has been expanded
\* to "{{#template m}}Hello World": the file m is missing.
UnresolvableFileWitness ==
    /\ pc = "done"
    /\ files = FileTree
    /\ stack[1].chapter_content = DocMissing \o DocFooter
    /\ ~stack[1].results[1].ok
    /\ stack[1].results[2].ok
    /\ result = DocMissing \o HelloWorld

\* The depth arguments of the active calls: 0 for the outermost call, and for
\* every recursive call at most MAX_LINK_NESTED_DEPTH and one more than the
\* depth of the call that made it.
DepthsInOrder ==
    Expanding =>
        /\ stack[1].depth = 0
        /\ \A d \in 2..Len(stack) :
               /\ stack[d].depth <= MAX_LINK_NESTED_DEPTH
               /\ stack[d].depth = stack[d - 1].depth + 1

\* The outermost call is over: it returned, or it was unwound by a panic.
Terminated == pc \in {"done", "panic"}

\* C5: whatever the files, self-including and mutually including ones
\* among them, a call of replace_template at depth 0 comes to an end, and
\* every recursive call made on the way has a depth of at most
\* MAX_LINK_NESTED_DEPTH = 10, one more than the depth of its caller.
DepthBoundedAndTerminates == []DepthsInOrder /\ <>Terminated

\* The link for which the call in stack[d] made the call in stack[d + 1].
CallingLink(d) == stack[d].links[stack[d].k]

TargetsOf(rs) == [j \in 1..Len(rs) |-> rs[j].target]

TextsOf(ls) == [j \in 1..Len(ls) |-> ls[j].link_text]

IsTemplate(link) == link.link_type = "Template"

AtDepth0(read) == read.depth = 0

\* C6: a call with base directory B asks the file reader, for a Template
\* invocation with path P, for B joined with P, once per invocation, and
\* the recursive call for that file has the parent directory of B joined
\* with P as its base; so the invocation of i inside d/h reads d/i, and
\* with base b the file asked for g is b/g.
RelativeResolution ==
    Expanding =>
        /\ \A j \in 1..Len(reads) :
               reads[j].target = PathJoin(reads[j].base, reads[j].path)
        /\ \A d \in 1..(Len(stack) - 1) :
               \E j \in 1..Len(reads) :
                   /\ reads[j].depth = d - 1
                   /\ reads[j].link_text = CallingLink(d).link_text
                   /\ reads[j].base = stack[d].base
                   /\ PathParent(reads[j].target) =
                          [some |-> TRUE, path |-> stack[d + 1].base]
        /\ pc = "done" =>
               TextsOf(SelectSeq(reads, AtDepth0))
                   = TextsOf(SelectSeq(stack[1].links, IsTemplate))
        /\ (pc = "done" /\ files = FileTree
              /\ stack[1].chapter_content = DocNested) =>
               IF stack[1].base = <<>>
               THEN TargetsOf(reads) = <<PathDH, PathDI>>
               ELSE TargetsOf(reads) = <<BaseB \o <<"/">> \o PathDH>>
        /\ (pc = "done" /\ files = FileTree /\ stack[1].chapter_content = DocG) =>
               result = (IF stack[1].base = BaseB THEN FileBG
                         ELSE ArgBy \o ValAnon)

\* The call for d/h, made from the document with the empty base, is itself
\* calling for i: the file read is d/i and that call's base is d.
RelativeResolutionWitness ==
    /\ pc = "run"
    /\ files = FileTree
    /\ stack[1].chapter_content = DocNested
    /\ stack[1].base = <<>>
    /\ Len(stack) = 3
    /\ stack[2].base = <<"d">>
    /\ CallingLink(2).path = PathI
    /\ reads[2].target = PathDI
    /\ stack[3].base = <<"d">>

\* The text the call in stack[d] read for its calling link.
ReadFor(d) ==
    read_to_string(files, PathJoin(stack[d].base, CallingLink(d).path))

\* C7: the text a recursive call scans for invocations is the file's content
\* with its placeholders already filled from the arguments of the invocation
\* that included it: {{#template i t=[[#t]]}} inside d/h, included with
\* t=T, is parsed with the value T for t, and i's content comes out with T.
SubstituteThenExpand ==
    Expanding =>
        /\ \A d \in 1..(Len(stack) - 1) :
               /\ ReadFor(d).ok
               /\ stack[d + 1].chapter_content =
                      Args_replace(ReadFor(d).contents, CallingLink(d).args)
               /\ stack[d + 1].links =
                      extract_template_links(stack[d + 1].chapter_content)
        /\ (files = FileTree /\ stack[1].chapter_content = DocNested
              /\ stack[1].base = <<>>) =>
               /\ Len(stack) >= 2 => stack[2].links[1].args = (<<"t">> :> <<"T">>)
               /\ Len(stack) >= 3 => stack[3].chapter_content = <<"<", "T", ">">>
               /\ pc = "done" => result = NestedOut

\* Inside d/h, included with t=T, the invocation of i has been parsed with
\* t=T and the call for d/i is scanning "<T>".
SubstituteThenExpandWitness ==
    /\ pc = "run"
    /\ files = FileTree
    /\ stack[1].chapter_content = DocNested
    /\ stack[1].base = <<>>
    /\ Len(stack) = 3
    /\ FileDH = <<"#", " ">> \o ArgT \o <<"\n">> \o Open \o <<" ", "i", " ", "t", "=">> \o ArgT \o Close
    /\ CallingLink(2).args = (<<"t">> :> <<"T">>)
    /\ stack[3].chapter_content = <<"<", "T", ">">>

\* The mapping a list of pairs stands for when each pair is taken as
\* written: a later pair overrides an earlier one of the same name.
PairsMap(pairs) ==
    [name \in {pairs[i][1] : i \in 1..Len(pairs)} |->
        pairs[CHOOSE i \in 1..Len(pairs) :
                  /\ pairs[i][1] = name
                  /\ \A j \in (i + 1)..Len(pairs) : pairs[j][1] # name][2]]

\* Whitespace followed by a name= token somewhere in value v.
HasPairBoundary(v) ==
    \E i \in 1..Len(v), j \in 1..Len(v) :
        /\ v[i] \in WS
        /\ j > i + 1
        /\ v[j] = "="
        /\ \A k \in (i + 1)..(j - 1) : v[k] \notin WS \cup {"="}

EndsInWhitespace(v) == v # <<>> /\ v[Len(v)] \in WS

ValuesOf(pairs) == {pairs[i][2] : i \in 1..Len(pairs)}

\* The one link of a text that is one invocation from end to end.
OneLink(links, text, path) ==
    /\ Len(links) = 1
    /\ links[1].link_type = "Template"
    /\ links[1].start_index = 0
    /\ links[1].end_index = Len(text)
    /\ links[1].path = path

\* C8: in the inline layout a pair's name is the run without '=' and
\* whitespace before the first '=', and its value goes on to the next
\* whitespace followed by a name= token, or to the end of the argument text:
\* values keep their '=' and their spaces, "lang=rust math=2+2=4" gives
\* exactly {lang: rust, math: 2+2=4} and "lang=rust authors=Goudham & Hazel"
\* exactly {lang: rust, authors: Goudham & Hazel}, and a value is cut only
\* where a name= token follows whitespace ("math=x y=z" gives math: x, y: z).
InlineValues ==
    (pc = "parse" /\ "inline" \in output.did) =>
        /\ OneLink(output.inline, SingleLine(input.path, input.pairs), input.path)
        /\ (\A v \in ValuesOf(input.pairs) : ~HasPairBoundary(v)) =>
               output.inline[1].args = PairsMap(input.pairs)
        /\ input.pairs = <<<<KeyLang, ValRust>>, <<KeyMath, ValMath>>>> =>
               output.inline[1].args = (KeyLang :> ValRust) @@ (KeyMath :> ValMath)
        /\ input.pairs = <<<<KeyLang, ValRust>>, <<KeyAuthors, ValAuthors>>>> =>
               output.inline[1].args
                   = (KeyLang :> ValRust) @@ (KeyAuthors :> ValAuthors)
        /\ input.pairs = <<<<KeyMath, ValPairLike>>>> =>
               output.inline[1].args = (KeyMath :> <<"x">>) @@ (<<"y">> :> <<"z">>)

\* {{#template t.md lang=rust math=2+2=4}} has been parsed: math is 2+2=4.
InlineValuesWitness ==
    /\ pc = "parse"
    /\ "inline" \in output.did
    /\ input.path = PathT
    /\ input.pairs = <<<<KeyLang, ValRust>>, <<KeyMath, ValMath>>>>
    /\ DOMAIN output.inline[1].args = {KeyLang, KeyMath}
    /\ output.inline[1].args[KeyMath] = ValMath

BothLayoutsParsed == pc = "parse" /\ output.did = {"inline", "multi"}

SameLink(inline, multi) ==
    /\ Len(inline) = 1
    /\ Len(multi) = 1
    /\ inline[1].link_type = "Template"
    /\ multi[1].link_type = "Template"
    /\ multi[1].path = inline[1].path
    /\ multi[1].args = inline[1].args

\* C9 as stated: for every path and every list of name=value pairs, the
\* invocation with the path and each pair on a line of its own gives a link
\* with the same path and the same mapping as the single-line invocation
\* with the same pairs.
LayoutEquivalence ==
    BothLayoutsParsed => SameLink(output.inline, output.multi)

\* A value that reads the same in both layouts: it does not end in
\* whitespace and has no whitespace followed by a name= token.
Ordinary(v) == ~EndsInWhitespace(v) /\ ~HasPairBoundary(v)

\* C9, amended: for every path and every list of name=value pairs whose
\* values neither end in whitespace nor contain whitespace followed by a
\* name= token, the invocation with the path and each pair on a line of its
\* own gives a link with the same path and the same mapping as the
\* single-line invocation with the same pairs, namely the pairs as written.
LayoutEquivalenceOrdinary ==
    (BothLayoutsParsed /\ \A v \in ValuesOf(input.pairs) : Ordinary(v)) =>
        /\ SameLink(output.inline, output.multi)
        /\ output.multi[1].path = input.path
        /\ output.multi[1].args = PairsMap(input.pairs)

\* Both layouts of test.rs-like input with lang=rust and
\* authors=Goudham & Hazel, the lines indented, have been parsed alike.
LayoutEquivalenceWitness ==
    /\ BothLayoutsParsed
    /\ input.nl = NlIndent
    /\ input.pairs = <<<<KeyLang, ValRust>>, <<KeyAuthors, ValAuthors>>>>
    /\ IsMultiLine(SliceFrom(MultiLine(input.path, input.pairs, input.nl),
                             Len(Open \o input.nl \o input.path)))
    /\ output.multi[1].args = (KeyLang :> ValRust) @@ (KeyAuthors :> ValAuthors)
    /\ output.inline[1].args = output.multi[1].args

\* The spans of links lie in the text, one after the other, none empty.
SpansInOrder(links, text) ==
    /\ \A i \in 1..Len(links) :
           /\ 0 <= links[i].start_index
           /\ links[i].start_index < links[i].end_index
           /\ links[i].end_index <= Len(text)
           /\ links[i].link_text
                  = Slice(text, links[i].start_index, links[i].end_index)
    /\ \A i \in 1..(Len(links) - 1) : links[i].end_index <= links[i + 1].start_index

\* What a call on text with the given base and depth is to return: the text
\* with each invocation replaced by its result, which is the marker as
\* written when the file cannot be read, the text without the backslash for
\* an escaped invocation, the expansion of the substituted file content
\* otherwise, and nothing at the depth bound.
RECURSIVE Expansion(_, _, _)
ExpansionOfFile(link, r, target, depth) ==
    IF ~r.ok THEN link.link_text
    ELSE IF depth >= MAX_LINK_NESTED_DEPTH THEN <<>>
    ELSE Expansion(Args_replace(r.contents, link.args), PathParent(target).path,
                   depth + 1)

ResultOf(link, base, depth) ==
    IF link.link_type = "Escaped"
    THEN (IF depth >= MAX_LINK_NESTED_DEPTH THEN <<>> ELSE Tail(link.link_text))
    ELSE Only({ExpansionOfFile(link, read_to_string(files, target), target, depth) :
                 target \in {PathJoin(base, link.path)}})

ResultsOf(links, base, depth) ==
    [i \in 1..Len(links) |-> ResultOf(links[i], base, depth)]

Expansion(text, base, depth) ==
    Only({Assembled(text, links, ResultsOf(links, base, depth)) :
            links \in {extract_template_links(text)}})

\* The invocations of every text scanned have spans in increasing order
\* that do not overlap; the cursor of a call stays within the text; a call
\* whose loop is over returns the text between the spans, untouched, and
\* what each invocation came to, in the order of the text; and the String
\* returned for the document is its expansion.
AssembledInOrder ==
    Expanding =>
        /\ \A d \in 1..Len(stack) :
               /\ SpansInOrder(stack[d].links, stack[d].chapter_content)
               /\ stack[d].previous_end_index \in 0..Len(stack[d].chapter_content)
        /\ (pc # "panic" /\ Finished(Top)) =>
               Returned(Top) = Assembled(Top.chapter_content, Top.links, PiecesOf(Top))
        /\ pc = "done" =>
               /\ result = Returned(stack[1])
               /\ result = Expansion(stack[1].chapter_content, stack[1].base, 0)
               /\ (stack[1].chapter_content = DocMixed /\ files = FileTree
                     /\ stack[1].base = <<>>) =>
                      result = <<"x", " ">> \o DocMissing \o <<" ", "y", " ">>
                                 \o ByAda \o <<" ", "z", "\n">>
                                 \o Tail(DocEscaped) \o <<" ", "w">>

\* The cursor of a call that stays active does not move backwards.
CursorMovesForward ==
    \A d \in 1..Len(stack) :
        d <= Len(stack') =>
            stack'[d].previous_end_index >= stack[d].previous_end_index

\* C10: the invocations found in a text have non-overlapping spans in
\* strictly increasing order, and replace_template returns the text outside
\* the spans unchanged with, between them and in the order of the text, each
\* invocation's result (its expansion, its text without the backslash, or
\* its marker as written when the read failed); the copy cursor never moves
\* backwards.
LosslessAssembly == []AssembledInOrder /\ [][CursorMovesForward]_vars

\* A document with text around a failed, an expanded and an escaped
\* invocation has been put together.
LosslessAssemblyWitness ==
    /\ pc = "done"
    /\ files = FileTree
    /\ stack[1].base = <<>>
    /\ stack[1].chapter_content = DocMixed
    /\ Len(stack[1].links) = 3
    /\ ~stack[1].results[1].ok
    /\ stack[1].results[2].text = ByAda
    /\ stack[1].links[3].link_type = "Escaped"
    /\ Len(result) = Len(DocMixed) - Len(DocGAda) + Len(ByAda) - 1

\* The texts put together from malformed fragments and plain text only.
MalformedTexts ==
    {Flatten(ps) :
       ps \in SeqsUpTo(MalformedParts \cup {DocLit, DocNl}, MaxScanParts) \ {<<>>}}

\* An opening {{#template at offset i of the text: the keyword is whole,
\* whitespace or the end of the text comes after it.
OpeningAt(text, i) ==
    /\ StartsWithAt(text, i, Open)
    /\ (i + Len(Open) < Len(text) => text[i + Len(Open) + 1] \in WS)

\* Every opening {{#template of the text is cut short: no }} comes after it.
OpeningsCutShort(text) ==
    \A i \in 0..(Len(text) - 1) :
        OpeningAt(text, i) =>
            \A j \in i..(Len(text) - 1) : ~StartsWithAt(text, j, Close)

\* C11: a text whose only marker-like fragments are truncated markers (an
\* opening {{#template, escaped or not, with or without a path or arguments,
\* and no }} after it), empty markers ({{}}, {{#}}) and markers of another
\* keyword ({{#templatee file.rs}}, {{#include}}) has no invocation for
\* extract_template_links, and replace_template returns it unchanged without
\* a read, a diagnostic or a panic.
MalformedLeftAlone ==
    (Expanding /\ stack[1].chapter_content \in MalformedTexts
       /\ OpeningsCutShort(stack[1].chapter_content)) =>
        /\ extract_template_links(stack[1].chapter_content) = <<>>
        /\ stack[1].links = <<>>
        /\ Len(stack) = 1
        /\ reads = <<>>
        /\ diagnostics = <<>>
        /\ pc \in {"run", "done"}
        /\ pc = "done" => result = stack[1].chapter_content

\* "{{#templatee file.rs}}\{{#template f.md" has been returned as it is.
MalformedLeftAloneWitness ==
    /\ pc = "done"
    /\ files = FileTree
    /\ stack[1].chapter_content = ForeignLonger \o TruncEscaped
    /\ stack[1].chapter_content \in MalformedTexts
    /\ OpeningsCutShort(stack[1].chapter_content)
    /\ stack[1].links = <<>>
    /\ result = ForeignLonger \o TruncEscaped

\* C12: for every text, base directory and file reader, one that has a file
\* for any path asked for among them, no call of replace_template is unwound
\* by a panic: every failure ends as a diagnostic and a returned String.
NoFatalFailure == Expanding => pc # "panic"

\* What was pushed for the escaped invocations handled so far by frame f is
\* their text without the backslash.
EscapedUnescaped(f) ==
    \A i \in 1..Len(f.results) :
        f.links[i].link_type = "Escaped" =>
            f.results[i] = [ok |-> TRUE, text |-> Tail(f.links[i].link_text)]

\* C13: in every call of replace_template, whatever its depth from 0 up to
\* and including MAX_LINK_NESTED_DEPTH = 10, an escaped invocation comes to
\* its own text without the backslash; the depth bound does not apply to it.
EscapedAtEveryDepth ==
    Expanding => \A d \in 1..Len(stack) : EscapedUnescaped(stack[d])

\* The file of a Template link of frame f can be read.
Readable(f, link) ==
    /\ link.link_type = "Template"
    /\ read_to_string(files, PathJoin(f.base, link.path)).ok

TooDeep(f) == f.depth >= MAX_LINK_NESTED_DEPTH

\* The loop of the innermost call is at a Template link whose file can be
\* read, and the depth of the call is at the bound or above.
AtOverflow == AtLink /\ TooDeep(Top) /\ Readable(Top, Cur)

\* The step taken at such a link: no call is made, the text before the link
\* is copied and nothing after it, the cursor is at the end of the link, one
\* diagnostic with the source document is added and the loop goes on.
OverflowStep ==
    AtOverflow =>
        /\ pc' = "run"
        /\ Len(stack') = Len(stack)
        /\ SubSeq(stack', 1, Len(stack) - 1) = SubSeq(stack, 1, Len(stack) - 1)
        /\ stack'[Len(stack)].replaced =
               Top.replaced
                 \o SubSeq(Top.chapter_content, Top.previous_end_index + 1,
                           Cur.start_index)
        /\ stack'[Len(stack)].previous_end_index = Cur.end_index
        /\ stack'[Len(stack)].k = Top.k + 1
        /\ stack'[Len(stack)].links = Top.links
        /\ diagnostics' =
               Append(diagnostics, [kind |-> "stack_overflow", source |-> source])

\* A call at the bound or above whose loop is over has handled every link and
\* returns the text outside the links with nothing for the Template links
\* whose file was read; the results of a document's links are those each
\* link has by itself, whatever became of the links beside it.
OverflowLocal ==
    Expanding =>
        /\ (pc # "panic" /\ Finished(Top) /\ TooDeep(Top)) =>
               /\ Len(Top.results) = Len(Top.links)
               /\ \A i \in 1..Len(Top.links) :
                      Readable(Top, Top.links[i]) =>
                          Top.results[i] = [ok |-> TRUE, text |-> <<>>]
               /\ Returned(Top) =
                      Assembled(Top.chapter_content, Top.links, PiecesOf(Top))
        /\ pc = "done" =>
               /\ \A i \in 1..Len(stack[1].links) :
                      stack[1].results[i].ok =>
                          stack[1].results[i].text =
                              ResultOf(stack[1].links[i], stack[1].base,
                                       stack[1].depth)
               /\ (files = FileTree /\ stack[1].base = <<>>
                     /\ stack[1].depth >= MAX_LINK_NESTED_DEPTH
                     /\ stack[1].chapter_content = DocLit \o DocG) =>
                      /\ result = DocLit
                      /\ diagnostics =
                             <<[kind |-> "stack_overflow", source |-> SourceName]>>
               /\ (files = FileTree /\ stack[1].base = <<>>
                     /\ stack[1].depth = 0
                     /\ stack[1].chapter_content = DocSelf \o DocG) =>
                      /\ stack[1].results[2].text = ArgBy \o ValAnon
                      /\ \E j \in 1..Len(diagnostics) :
                             diagnostics[j].kind = "stack_overflow"

\* C14: where a Template invocation's file is read in a call whose depth is
\* MAX_LINK_NESTED_DEPTH = 10 or more, nothing is appended for that one
\* invocation, the copy cursor moves to the end of its span, a diagnostic
\* with the source document is logged, the text before and after it is still
\* copied and the other invocations of the text are still handled; the
\* invocations beside it at a lesser depth expand as they do by themselves.
DepthOverflowLocal == []OverflowLocal /\ [][OverflowStep]_vars

\* The call on "{{#template s}}{{#template g}}", where s includes itself,
\* has returned: the bound was hit inside s, and g came to "By Anon".
DepthOverflowLocalWitness ==
    /\ pc = "done"
    /\ files = FileTree
    /\ stack[1].base = <<>>
    /\ stack[1].depth = 0
    /\ stack[1].chapter_content = DocSelf \o DocG
    /\ \E j \in 1..Len(reads) :
           reads[j].depth >= MAX_LINK_NESTED_DEPTH /\ reads[j].path = PathS
    /\ \E j \in 1..Len(diagnostics) : diagnostics[j].kind = "stack_overflow"
    /\ stack[1].results[2].text = ArgBy \o ValAnon

\* The end of the first }} of text at or after offset i.
FirstCloseEnd(text, i) ==
    Least({j \in i..Len(text) : StartsWithAt(text, j, Close) \/ j = Len(text)}) + 2

\* C15: the span of an escaped invocation runs from the backslash to the
\* first }} after it, so that a Template invocation later on the same line
\* is an invocation of its own and is expanded:
\* "\{{#template x.md}}{{#template g}}" gives "{{#template x.md}}By Anon".
EscapedEndsAtFirstClose ==
    Expanding =>
        /\ \A d \in 1..Len(stack) :
               \A i \in 1..Len(stack[d].links) :
                   stack[d].links[i].link_type = "Escaped" =>
                       stack[d].links[i].end_index =
                           FirstCloseEnd(stack[d].chapter_content,
                                         stack[d].links[i].start_index)
        /\ (pc = "done" /\ files = FileTree /\ stack[1].base = <<>>
              /\ stack[1].chapter_content = DocEscaped \o DocG) =>
               result = Tail(DocEscaped) \o ArgBy \o ValAnon

\* The mapping the multi-line rule and the inline rule give for an argument
\* text: one pair per line, split at the first '='; or TEMPLATE_ARGS.
ByMultiLineRule(args) == MapExtend(EmptyMap, MultiLineArgs(ArgLines(args), 1), 1)

ByInlineRule(args) ==
    MapExtend(EmptyMap, InlineArgs(args, 0, ArgStarts(args)).pairs, 1)

\* The argument text of the invocation that text is.
ArgumentText(text) == TEMPLATE(text, 0).g2

\* The matched text before the closing }}.
BeforeClose(text) == Slice(text, 0, Len(text) - Len(Close))

\* C16: the arguments of an invocation are parsed by the multi-line rule
\* exactly when there is a line break anywhere in the matched text before
\* the closing }}, be it between the keyword and the path or between the
\* path and the first argument, and by the inline rule otherwise.
LayoutByFullMatch ==
    pc = "layout-done" =>
        /\ OneLink(output, Layout(input.path, input.pairs, input.breaks, input.nl),
                   input.path)
        /\ output[1].args =
               IF Contains(BeforeClose(output[1].link_text), LINE_BREAKS)
               THEN ByMultiLineRule(ArgumentText(output[1].link_text))
               ELSE ByInlineRule(ArgumentText(output[1].link_text))

\* A plain placeholder with the given name over the given span.
PlainOver(captured_arg, name, start, end) ==
    /\ captured_arg.args_type = "Plain"
    /\ captured_arg.argument = name
    /\ captured_arg.start_index = start
    /\ captured_arg.end_index = end

\* C17: in a content with two placeholders on one line and only
\* non-whitespace characters between them, as in [[#a]]/[[#b]], extract_args
\* finds two placeholders, each with its own name and ending at its own ]],
\* and Args::replace gives the value of the first, the characters between
\* them as they are, and the value of the second.
EachPlaceholderOnItsOwn ==
    (pc = "two-done" /\ \A i \in 1..Len(input.sep) : input.sep[i] \notin WS) =>
        /\ Len(output.captured) = 2
        /\ PlainOver(output.captured[1], input.first, 0,
                     Len(Placeholder(input.first)))
        /\ PlainOver(output.captured[2], input.second,
                     Len(Placeholder(input.first)) + Len(input.sep),
                     Len(TwoPlaceholders(input.first, input.sep, input.second)))
        /\ output.replaced =
               MappedOr(input.all_args, input.first, <<>>) \o input.sep
                 \o MappedOr(input.all_args, input.second, <<>>)

\* C18: in the inline and in the multi-line layout alike, a token or line
\* without '=' in the argument text adds no entry to the mapping, one
\* diagnostic is printed for it, and every pair before and after it is in the
\* mapping with its own value.
MalformedPairSkipped ==
    pc = "junk-done" =>
        /\ OneLink(output.links, JunkText(input), input.path)
        /\ output.links[1].args = PairsMap(input.before \o input.after)
        /\ Len(output.messages) = 1

\* The diagnostic logged for a failed read carries the source document, the
\* path that was asked for and the text of the invocation.
NamesFailure(diagnostic, read) ==
    /\ "source" \in DOMAIN diagnostic
    /\ diagnostic.source = source
    /\ diagnostic.target = read.target
    /\ diagnostic.link_text = read.link_text

IsReadError(diagnostic) == diagnostic.kind = "read_error"

\* The reads that failed, in order.
FailedRead(read) == ~read_to_string(files, read.target).ok

\* C19: whenever the file reader fails for a Template invocation, the
\* diagnostic logged by replace_template names the source document given as
\* source, the resolved path that was asked for, and the invocation's text.
ReadFailureDiagnostic ==
    Expanding =>
        /\ Len(SelectSeq(diagnostics, IsReadError))
               = Len(SelectSeq(reads, FailedRead))
        /\ \A j \in 1..Len(SelectSeq(diagnostics, IsReadError)) :
               NamesFailure(SelectSeq(diagnostics, IsReadError)[j],
                            SelectSeq(reads, FailedRead)[j])

====
